---------------------------- MODULE Spec2Model ----------------------------
(***************************************************************************)
(* Model of the neuro-san-studio coded tools:                              *)
(*   - the AAOSA delegation engine and the workflow engine built on it     *)
(*     (coded_tools/cloud_landing_zone_provider),                          *)
(*   - the CRUSE flask front end: chat loop and TTS cache                  *)
(*     (apps/cruse/interface_flask.py),                                    *)
(*   - the invoke methods of the infrastructure coded tools                *)
(*     (coded_tools/cloud_infrastructure_provider).                        *)
(*                                                                         *)
(* A Python string is a sequence of chunks.  A chunk is a literal piece of *)
(* text (a template of an f-string, a whole argument) or one character;    *)
(* Text(s) is the sequence of the characters of s.  lower(), strip() and   *)
(* the `in` substring test are computed on Text(s).                        *)
(***************************************************************************)
EXTENDS Integers, Sequences, FiniteSets, TLC

VARIABLES
    \* ---- AAOSADelegationEngine / WorkflowEngine ----
    use_real_agents,    \* AAOSADelegationEngine.use_real_agents
    aaosa_enabled,      \* WorkflowEngine.aaosa_enabled
    bridge_plan,        \* how the live agents answer, by (agent, mode)
    trace_lists,        \* the list objects ever bound to self.delegation_trace
    delegation_trace,   \* self.delegation_trace: index of its list in trace_lists
    active_sessions,    \* WorkflowEngine.active_sessions (a dict)
    now,                \* wall clock in seconds (datetime.now())
    pc,                 \* position inside execute_workflow_delegation
    frame,              \* arguments and locals of the running workflow, and
                        \* the length the trace had when it began
    last_result,        \* value returned by WorkflowEngine.execute_workflow
    last_response,      \* string returned by the interface execute_workflow
    last_delegate,      \* the most recent delegate_to_agent call and its value
    n_workflows,        \* workflows started so far
    n_direct,           \* direct delegate_to_agent calls so far
    \* ---- one call of _handle_determine_call ----
    arg_agent,          \* its argument agent
    arg_inquiry,        \* its argument inquiry
    determine_result,   \* the dict it returned
    \* ---- apps/cruse/interface_flask.py: the /chat namespace ----
    thread_started,     \* the global thread_started
    clients,            \* each client: disconnected, in on_connect, connected
    loops,              \* the cruse_thinking_process tasks started, with their locals
    user_input_queue,   \* the global user_input_queue
    gui_context_queue,  \* the global gui_context_queue
    cruse_calls,        \* the (user_input, gui_context) pairs passed to cruse
    n_user_inputs,      \* user_input events so far
    user_inputs_put,    \* everything put on user_input_queue, in order
    n_gui_contexts,     \* gui_context events so far
    cruse_session,      \* the global cruse_session: the number of the session
    cruse_agent_state,  \* the global cruse_agent_state: the session it is a state of
    \* ---- apps/cruse/interface_flask.py: POST /tts ----
    ENABLE_OPENAI_TTS,  \* the module constant, read from the environment
    openai_client,      \* the global openai_client: TRUE when it is not None
    tts_cache,          \* the files of TTS_CACHE_DIR: key -> st_mtime
    tts_now,            \* time.time()
    tts_request,        \* the JSON body of the last request
    tts_reply,          \* the reply to the last request
    n_tts_requests,     \* requests so far
    n_tts_ticks,        \* steps of the clock so far
    \* ---- coded_tools/cloud_infrastructure_provider ----
    files,              \* the paths that exist in the file system
    sly_data,           \* the sly_data dict shared by the tools
    tool_call,          \* the last invoke: tool and args
    tool_result,        \* what the last invoke returned (or raised)
    \* ---- dev/backup/cloud_infrastructure_provider/project_plan_creator.py ----
    requirements,       \* the dict _analyze_design_requirements returned
    tasks,              \* the list _generate_tasks_from_requirements returned
    timeline_info       \* the dict _calculate_timeline returned

engineVars == <<use_real_agents, aaosa_enabled, bridge_plan, trace_lists,
            delegation_trace, active_sessions, now, pc, frame, last_result,
            last_response, last_delegate, n_workflows, n_direct>>

determineVars == <<arg_agent, arg_inquiry, determine_result>>

chatVars == <<thread_started, clients, loops, user_input_queue, gui_context_queue,
              cruse_calls, n_user_inputs, user_inputs_put, n_gui_contexts,
              cruse_session, cruse_agent_state>>

ttsVars == <<ENABLE_OPENAI_TTS, openai_client, tts_cache, tts_now, tts_request,
             tts_reply, n_tts_requests, n_tts_ticks>>

toolVars == <<files, sly_data, tool_call, tool_result>>

planVars == <<requirements, tasks, timeline_info>>

\* what the actions of the engine leave alone
nonEngineVars == <<determineVars, chatVars, ttsVars, toolVars, planVars>>
\* what a call of _handle_determine_call leaves alone
nonDetermineVars == <<engineVars, chatVars, ttsVars, toolVars, planVars>>
\* what the chat handlers and the chat loop leave alone
nonChatVars == <<engineVars, determineVars, ttsVars, toolVars, planVars>>
\* what POST /tts leaves alone
nonTtsVars == <<engineVars, determineVars, chatVars, toolVars, planVars>>
\* what the coded tools leave alone
nonToolVars == <<engineVars, determineVars, chatVars, ttsVars, planVars>>
\* what the backup ProjectPlanCreator leaves alone
nonPlanVars == <<engineVars, determineVars, chatVars, ttsVars, toolVars>>

vars == <<engineVars, determineVars, chatVars, ttsVars, toolVars, planVars>>

----------------------------------------------------------------------------
(* Bounds of the model *)

\* workflows one engine runs without a live bridge
MaxWorkflows == 2
\* workflows one engine runs on a live bridge
MaxLiveWorkflows == 1
\* (agent, mode) pairs whose live answer is not the plain one
MaxDeviations == 1
\* direct calls of delegate_to_agent
MaxDirectCalls == 2
MaxTraceLists == 2
MaxClock == 1
\* cruse sessions set up, the one set up at import included
MaxSessions == 2
\* chunks of an inquiry handed to _handle_determine_call
MaxInquiryChunks == 2
\* user_input events the clients send
MaxUserInputs == 2
\* gui_context events the clients send
MaxGuiContexts == 1
\* POST /tts requests
MaxTtsRequests == 2
\* steps of the clock between them
MaxTtsTicks == 2

----------------------------------------------------------------------------
(* Python str operations *)

\* the characters of a chunk; a chunk not listed is one character
ChunkChars(c) ==
    CASE c = "azure_landing_zone" ->
           <<"a","z","u","r","e","_","l","a","n","d","i","n","g","_","z","o","n","e">>
      [] c = "software_development" ->
           <<"s","o","f","t","w","a","r","e","_","d","e","v","e","l","o","p","m","e","n","t">>
      [] c = "Create Azure Landing Zone with hub and spoke model with 3 regions" ->
           <<"C","r","e","a","t","e"," ","A","z","u","r","e"," ","L","a","n","d","i","n","g"," ","Z","o","n","e"," ","w","i","t","h"," ","h","u","b"," ","a","n","d"," ","s","p","o","k","e"," ","m","o","d","e","l"," ","w","i","t","h"," ","3"," ","r","e","g","i","o","n","s">>
      [] c = "Build QA" ->
           <<"B","u","i","l","d"," ","Q","A">>
      [] c = "Create Product Requirements Document for " ->
           <<"C","r","e","a","t","e"," ","P","r","o","d","u","c","t"," ","R","e","q","u","i","r","e","m","e","n","t","s"," ","D","o","c","u","m","e","n","t"," ","f","o","r"," ">>
      [] c = ": " ->
           <<":"," ">>
      [] c = "Design system architecture for " ->
           <<"D","e","s","i","g","n"," ","s","y","s","t","e","m"," ","a","r","c","h","i","t","e","c","t","u","r","e"," ","f","o","r"," ">>
      [] c = " based on requirements: " ->
           <<" ","b","a","s","e","d"," ","o","n"," ","r","e","q","u","i","r","e","m","e","n","t","s",":"," ">>
      [] c = "Create project plan for " ->
           <<"C","r","e","a","t","e"," ","p","r","o","j","e","c","t"," ","p","l","a","n"," ","f","o","r"," ">>
      [] c = " implementation" ->
           <<" ","i","m","p","l","e","m","e","n","t","a","t","i","o","n">>
      [] c = "Implement " ->
           <<"I","m","p","l","e","m","e","n","t"," ">>
      [] c = " solution according to architecture and requirements" ->
           <<" ","s","o","l","u","t","i","o","n"," ","a","c","c","o","r","d","i","n","g"," ","t","o"," ","a","r","c","h","i","t","e","c","t","u","r","e"," ","a","n","d"," ","r","e","q","u","i","r","e","m","e","n","t","s">>
      [] c = "Test and validate " ->
           <<"T","e","s","t"," ","a","n","d"," ","v","a","l","i","d","a","t","e"," ">>
      [] c = " implementation for quality and compliance" ->
           <<" ","i","m","p","l","e","m","e","n","t","a","t","i","o","n"," ","f","o","r"," ","q","u","a","l","i","t","y"," ","a","n","d"," ","c","o","m","p","l","i","a","n","c","e">>
      [] c = "pl" ->
           <<"p","l">>
      [] c = "an" ->
           <<"a","n">>
      [] c = "QA" ->
           <<"Q","A">>
      [] c = "est" ->
           <<"e","s","t">>
      [] c = "PRD" ->
           <<"P","R","D">>
      [] c = "Code" ->
           <<"C","o","d","e">>
      [] c = "Design" ->
           <<"D","e","s","i","g","n">>
      [] c = "tts-1" ->
           <<"t","t","s","-","1">>
      [] c = "tts-1-hd" ->
           <<"t","t","s","-","1","-","h","d">>
      [] c = "gpt-4o-mini-tts" ->
           <<"g","p","t","-","4","o","-","m","i","n","i","-","t","t","s">>
      [] c = "my-mini" ->
           <<"m","y","-","m","i","n","i">>
      [] c = "coral" ->
           <<"c","o","r","a","l">>
      [] c = "alloy" ->
           <<"a","l","l","o","y">>
      [] c = "mp3" ->
           <<"m","p","3">>
      [] c = "hi" ->
           <<"h","i">>
      [] c = "yo" ->
           <<"y","o">>
      [] c = "output" ->
           <<"o","u","t","p","u","t">>
      [] c = "output/" ->
           <<"o","u","t","p","u","t","/">>
      [] OTHER -> <<c>>

RECURSIVE Text(_)
Text(s) == IF s = <<>> THEN <<>> ELSE ChunkChars(Head(s)) \o Text(Tail(s))

UpperChars == <<"A","B","C","D","E","F","G","H","I","J","K","L","M",
                "N","O","P","Q","R","S","T","U","V","W","X","Y","Z">>
LowerChars == <<"a","b","c","d","e","f","g","h","i","j","k","l","m",
                "n","o","p","q","r","s","t","u","v","w","x","y","z">>

LowerChar(c) ==
    IF \E i \in 1..Len(UpperChars) : UpperChars[i] = c
    THEN LowerChars[CHOOSE i \in 1..Len(UpperChars) : UpperChars[i] = c]
    ELSE c

\* str.lower(), as characters
Lower(chars) == [i \in 1..Len(chars) |-> LowerChar(chars[i])]

\* the Python test `k in s`, on characters
IsSubstring(k, chars) ==
    \E i \in 1..(Len(chars) - Len(k) + 1) : SubSeq(chars, i, i + Len(k) - 1) = k

----------------------------------------------------------------------------
(* AAOSADelegationEngine *)

Absent == "<absent>"
NoText == <<>>

Agents == {"boss", "product-manager", "architect", "project-manager",
           "engineer", "qa"}

\* relevance_keywords.get(agent, [])
RelevanceKeywords(agent) ==
    CASE agent = "product-manager" ->
           { <<"r","e","q","u","i","r","e","m","e","n","t","s">>,
             <<"p","r","d">>,
             <<"p","r","o","d","u","c","t">>,
             <<"s","p","e","c","i","f","i","c","a","t","i","o","n">>,
             <<"s","c","o","p","e">> }
      [] agent = "architect" ->
           { <<"a","r","c","h","i","t","e","c","t","u","r","e">>,
             <<"d","e","s","i","g","n">>,
             <<"t","e","c","h","n","i","c","a","l">>,
             <<"s","y","s","t","e","m">>,
             <<"i","n","f","r","a","s","t","r","u","c","t","u","r","e">> }
      [] agent = "project-manager" ->
           { <<"p","r","o","j","e","c","t">>,
             <<"p","l","a","n">>,
             <<"t","i","m","e","l","i","n","e">>,
             <<"c","o","o","r","d","i","n","a","t","i","o","n">>,
             <<"t","a","s","k","s">> }
      [] agent = "engineer" ->
           { <<"i","m","p","l","e","m","e","n","t","a","t","i","o","n">>,
             <<"c","o","d","e">>,
             <<"d","e","v","e","l","o","p","m","e","n","t">>,
             <<"b","u","i","l","d">>,
             <<"p","r","o","g","r","a","m","m","i","n","g">> }
      [] agent = "qa" ->
           { <<"t","e","s","t">>,
             <<"q","u","a","l","i","t","y">>,
             <<"v","a","l","i","d","a","t","i","o","n">>,
             <<"v","e","r","i","f","i","c","a","t","i","o","n">>,
             <<"q","a">> }
      [] OTHER -> {}

\* the keyword test without lower()
IsRelevantCaseSensitive(agent, inquiry) ==
    \E keyword \in RelevanceKeywords(agent) :
        IsSubstring(keyword, Text(inquiry))

\* any(keyword in inquiry.lower() for keyword in keywords)
IsRelevant(agent, inquiry) ==
    \E keyword \in RelevanceKeywords(agent) :
        IsSubstring(keyword, Lower(Text(inquiry)))

\* A response dict.  Every response has the same fields; the ones a
\* response of its Mode does not carry hold Absent / 0 / NoText.
Response(name, inquiry, mode, relevant, strength, claim, response, err) ==
    [Name |-> name, Inquiry |-> inquiry, Mode |-> mode,
     Relevant |-> relevant, Strength |-> strength, Claim |-> claim,
     Response |-> response, error |-> err, is_dict |-> TRUE]

\* _handle_determine_call
HandleDetermineCall(agent, inquiry) ==
    LET is_relevant == IsRelevant(agent, inquiry)
    IN  Response(agent, inquiry, "Determine",
                 IF is_relevant THEN "Yes" ELSE "No",
                 IF is_relevant THEN 8 ELSE 3,
                 IF is_relevant THEN "All" ELSE "Partial",
                 NoText, Absent)

\* response_templates.get(agent, f"I have completed the requested task: {inquiry}")
FulfillResponseText(agent, inquiry) ==
    CASE agent = "product-manager" -> <<"I have analyzed the requirements and created a comprehensive Product Requirements Document (PRD) with detailed specifications, acceptance criteria, and stakeholder requirements.">>
      [] agent = "architect" -> <<"I have designed a robust system architecture with scalable components, security considerations, and technical specifications that align with the product requirements.">>
      [] agent = "project-manager" -> <<"I have created a detailed project plan with timelines, resource allocation, dependencies, and risk mitigation strategies for successful delivery.">>
      [] agent = "engineer" -> <<"I have implemented the solution according to specifications, following best practices for code quality, maintainability, and performance.">>
      [] agent = "qa" -> <<"I have conducted comprehensive testing including functional, integration, and performance tests with detailed test results and quality assessment.">>
      [] OTHER -> <<"I have completed the requested task: ">> \o inquiry

\* _handle_fulfill_call
HandleFulfillCall(agent, inquiry) ==
    Response(agent, inquiry, "Fulfill", Absent, 0, Absent,
             FulfillResponseText(agent, inquiry), Absent)

\* _simulate_agent_response
SimulateAgentResponse(agent, inquiry, mode) ==
    CASE mode = "Determine" -> HandleDetermineCall(agent, inquiry)
      [] mode = "Fulfill" -> HandleFulfillCall(agent, inquiry)
      [] OTHER -> Response(Absent, NoText, Absent, Absent, 0, Absent,
                           NoText, "Unknown AAOSA mode")

\* What a live agent answers: a dict whose Relevant is "Yes", "No" or missing.
RealResponse(agent, inquiry, mode, relevant) ==
    Response(agent, inquiry, mode, relevant, 0, Absent,
             <<"live agent response">>, Absent)

\* A live answer that is not a dict (None, a bare string).
NonDictResponse ==
    [Name |-> Absent, Inquiry |-> NoText, Mode |-> Absent,
     Relevant |-> Absent, Strength |-> 0, Claim |-> Absent,
     Response |-> NoText, error |-> Absent, is_dict |-> FALSE]

\* The outcomes of self.agent_bridge.call_agent(to_agent, inquiry, mode)
\* that delegate_to_agent tells apart.
BridgeSuccess(resp) == [kind |-> "success", response |-> resp]
BridgeFailure == [kind |-> "failure", response |-> NonDictResponse]
BridgeThrows == [kind |-> "throws", response |-> NonDictResponse]
BridgeUnused == [kind |-> "unused", response |-> NonDictResponse]

\* delegation_record, without its timestamp and its copy of the response
DelegationRecord(from_agent, to_agent, inquiry, mode, status, err) ==
    [from_agent |-> from_agent, to_agent |-> to_agent, inquiry |-> inquiry,
     mode |-> mode, status |-> status, error |-> err]

\* delegate_to_agent without the fallback of its except clause
DelegateWithoutExcept(real, from_agent, to_agent, inquiry, mode, bridge) ==
    IF real
    THEN CASE bridge.kind = "success" ->
                [record |-> DelegationRecord(from_agent, to_agent, inquiry, mode,
                              "real_agent_call_success", Absent),
                 ret |-> bridge.response]
           [] bridge.kind = "failure" ->
                [record |-> DelegationRecord(from_agent, to_agent, inquiry, mode,
                              "real_agent_call_failed_fallback_simulation",
                              "Unknown error"),
                 ret |-> SimulateAgentResponse(to_agent, inquiry, mode)]
           [] OTHER ->
                [record |-> DelegationRecord(from_agent, to_agent, inquiry, mode,
                              "delegation_error", "bridge error"),
                 ret |-> NonDictResponse]
    ELSE [record |-> DelegationRecord(from_agent, to_agent, inquiry, mode,
                        "simulation_mode", Absent),
          ret |-> SimulateAgentResponse(to_agent, inquiry, mode)]

\* delegate_to_agent: the record it appends to delegation_trace and the
\* value it returns.  `real` is self.use_real_agents and self.agent_bridge.
DelegateToAgent(real, from_agent, to_agent, inquiry, mode, bridge) ==
    IF real
    THEN CASE bridge.kind = "success" ->
                [record |-> DelegationRecord(from_agent, to_agent, inquiry, mode,
                              "real_agent_call_success", Absent),
                 ret |-> bridge.response]
           [] bridge.kind = "failure" ->
                [record |-> DelegationRecord(from_agent, to_agent, inquiry, mode,
                              "real_agent_call_failed_fallback_simulation",
                              "Unknown error"),
                 ret |-> SimulateAgentResponse(to_agent, inquiry, mode)]
           [] OTHER ->
                [record |-> DelegationRecord(from_agent, to_agent, inquiry, mode,
                              "delegation_error", "bridge error"),
                 ret |-> SimulateAgentResponse(to_agent, inquiry, mode)]
    ELSE [record |-> DelegationRecord(from_agent, to_agent, inquiry, mode,
                        "simulation_mode", Absent),
          ret |-> SimulateAgentResponse(to_agent, inquiry, mode)]

----------------------------------------------------------------------------
(* AAOSADelegationEngine.execute_workflow_delegation *)

\* The requests the workflows of the model are started with.
Requests ==
    { [workflow_type |-> <<"azure_landing_zone">>,
       user_input |-> <<"Create Azure Landing Zone with hub and spoke model with 3 regions">>],
      [workflow_type |-> <<"software_development">>,
       user_input |-> <<"Build QA">>] }
SessionIds == {"s1"}
NoSessionId == ""

NumPhases == 5
PhaseFrom == <<"boss", "product-manager", "architect", "project-manager", "engineer">>
PhaseTo == <<"product-manager", "architect", "project-manager", "engineer", "qa">>

\* prd_inquiry, arch_inquiry, plan_inquiry, impl_inquiry, test_inquiry
PhaseInquiry(k, workflow_type, user_requirements) ==
    CASE k = 1 -> <<"Create Product Requirements Document for ">> \o workflow_type
                  \o <<": ">> \o user_requirements
      [] k = 2 -> <<"Design system architecture for ">> \o workflow_type
                  \o <<" based on requirements: ">> \o user_requirements
      [] k = 3 -> <<"Create project plan for ">> \o workflow_type
                  \o <<" implementation">>
      [] k = 4 -> <<"Implement ">> \o workflow_type
                  \o <<" solution according to architecture and requirements">>
      [] OTHER -> <<"Test and validate ">> \o workflow_type
                  \o <<" implementation for quality and compliance">>

NoFrame ==
    [workflow_type |-> NoText, user_requirements |-> NoText, session_id |-> NoSessionId,
     phase |-> 0, otrace |-> <<>>, delegation_results |-> <<>>, trace_base |-> 0]

\* session_id = f"workflow_{datetime.now().strftime('%Y%m%d_%H%M%S')}"
AutoSessionIds == <<"workflow_t0", "workflow_t1", "workflow_t2", "workflow_t3",
                    "workflow_t4", "workflow_t5", "workflow_t6", "workflow_t7">>
AutoSessionId(t) == AutoSessionIds[t + 1]

\* if not session_id: session_id = ...
EffectiveSessionId(session_id, t) ==
    IF session_id = NoSessionId THEN AutoSessionId(t) ELSE session_id

\* a result whose total_agents_involved leaves the boss out
WorkflowResultWithoutBoss(f, trace_ref) ==
    [success |-> TRUE, workflow_type |-> f.workflow_type, session_id |-> f.session_id,
     otrace |-> f.otrace, delegation_results |-> f.delegation_results,
     total_agents_involved |-> Len(f.delegation_results), delegation_trace |-> trace_ref]

\* The dict execute_workflow_delegation returns.  Its delegation_trace is
\* self.delegation_trace itself: a reference to the list, not a copy.
WorkflowResult(f, trace_ref) ==
    [success |-> TRUE, workflow_type |-> f.workflow_type, session_id |-> f.session_id,
     otrace |-> f.otrace, delegation_results |-> f.delegation_results,
     total_agents_involved |-> Len(f.otrace), delegation_trace |-> trace_ref]

NoWorkflowResult ==
    [success |-> FALSE, workflow_type |-> NoText, session_id |-> NoSessionId,
     otrace |-> <<>>, delegation_results |-> <<>>,
     total_agents_involved |-> 0, delegation_trace |-> 0]

----------------------------------------------------------------------------
(* WorkflowEngine.execute_workflow and the interface execute_workflow *)

EngineResult(success, session_id, workflow_type, otr, results, mode, total, wres, err) ==
    [success |-> success, session_id |-> session_id, workflow_type |-> workflow_type,
     otrace |-> otr, delegation_results |-> results, mode |-> mode,
     total_delegations |-> total, workflow_result |-> wres, error |-> err]

NoResult ==
    EngineResult(FALSE, NoSessionId, NoText, <<>>, <<>>, "none", 0, NoWorkflowResult, Absent)

\* the success return of execute_workflow
MultiAgentResult(wres, lists) ==
    EngineResult(TRUE, wres.session_id, wres.workflow_type, wres.otrace,
                 wres.delegation_results, "multi_agent_aaosa",
                 Len(lists[wres.delegation_trace]), wres, Absent)

\* execute_workflow without its except clause: the exception leaves it
ErrorResultUncaught(session_id, err) ==
    EngineResult(FALSE, session_id, NoText, <<>>, <<>>, "raised", 0, NoWorkflowResult, err)

\* the except return of execute_workflow
ErrorResult(session_id, err) ==
    EngineResult(FALSE, session_id, NoText, <<>>, <<>>, "error", 0, NoWorkflowResult, err)

\* the return of _execute_single_agent_workflow
SingleAgentResult(session_id, workflow_type) ==
    EngineResult(TRUE, session_id, workflow_type, <<"boss">>, <<>>,
                 "single_agent_fallback", 0, NoWorkflowResult, Absent)

Session(workflow_type, user_input, result, mode) ==
    [workflow_type |-> workflow_type, user_input |-> user_input,
     result |-> result, mode |-> mode]

\* an engine that keeps the first session stored under an id
StoreSessionKeepingFirst(sessions, session_id, session) ==
    [s \in (DOMAIN sessions) \cup {session_id} |->
        IF s \in DOMAIN sessions THEN sessions[s] ELSE session]

\* self.active_sessions[session_id] = session
StoreSession(sessions, session_id, session) ==
    [s \in (DOMAIN sessions) \cup {session_id} |->
        IF s = session_id THEN session ELSE sessions[s]]

\* the "result" of a session of the single-agent fallback; it carries no trace
SingleAgentStored ==
    [success |-> FALSE, workflow_type |-> NoText, session_id |-> NoSessionId,
     otrace |-> <<"boss">>, delegation_results |-> <<>>,
     total_agents_involved |-> 0, delegation_trace |-> 0]

\* the dicts get_session_status returns
SessionStatus(session_id, workflow_type, mode, otr, status, err) ==
    [session_id |-> session_id, workflow_type |-> workflow_type, mode |-> mode,
     otrace |-> otr, status |-> status, error |-> err]

\* WorkflowEngine.get_session_status
GetSessionStatus(sessions, session_id) ==
    IF session_id \notin DOMAIN sessions
    THEN SessionStatus(Absent, NoText, Absent, <<>>, Absent,
                       <<"No session found with ID: ", session_id>>)
    ELSE LET session == sessions[session_id]
         IN  SessionStatus(session_id, session.workflow_type, session.mode,
                           session.result.otrace, "completed", Absent)

\* WorkflowEngine.list_active_sessions, as the bag of its entries
ListActiveSessions(sessions) ==
    [sid \in DOMAIN sessions |->
        [session_id |-> sid, workflow_type |-> sessions[sid].workflow_type,
         mode |-> sessions[sid].mode,
         agents_count |-> Len(sessions[sid].result.otrace)]]

Report(kind, workflow_type, otr, total, session_id, err) ==
    [kind |-> kind, workflow_type |-> workflow_type, otrace |-> otr,
     total_delegations |-> total, session_id |-> session_id, error |-> err]

NoResponse == Report("none", NoText, <<>>, 0, NoSessionId, Absent)

\* The string the interface execute_workflow returns for the result of
\* engine.execute_workflow, by the branch that builds it and the values it
\* shows.  delegation.get raises on a deliverable that is no dict, and the
\* interface's own except turns that into its "execution failed" string.
InterfaceResponse(result, workflow_type) ==
    IF result.success
    THEN IF result.mode = "multi_agent_aaosa"
         THEN IF \A i \in 1..Len(result.delegation_results) :
                     result.delegation_results[i].is_dict
              THEN Report("multi_agent_report", workflow_type, result.otrace,
                          result.total_delegations, result.session_id, Absent)
              ELSE Report("execution_failed", workflow_type, <<>>, 0, NoSessionId,
                          "object has no attribute 'get'")
         ELSE Report("single_agent_report", workflow_type, result.otrace, 0,
                     result.session_id, Absent)
    ELSE Report("error_string", workflow_type, <<>>, 0, NoSessionId, result.error)

NoDelegate ==
    [from_agent |-> Absent, to_agent |-> Absent, inquiry |-> NoText,
     mode |-> Absent, bridge |-> "none", ret |-> NonDictResponse]

DelegateCallInfo(from_agent, to_agent, inquiry, mode, bridge, d) ==
    [from_agent |-> from_agent, to_agent |-> to_agent, inquiry |-> inquiry,
     mode |-> mode, bridge |-> bridge.kind, ret |-> d.ret]

\* a delegate_to_agent whose except clause does not record the delegation
AppendToTraceUnlessError(lists, ref, record) ==
    IF record.status = "delegation_error" THEN lists
    ELSE [lists EXCEPT ![ref] = Append(@, record)]

\* self.delegation_trace.append(delegation_record)
AppendToTrace(lists, ref, record) ==
    [lists EXCEPT ![ref] = Append(@, record)]

----------------------------------------------------------------------------
(* The live agents *)

Modes == {"Determine", "Fulfill"}
PlanKeys == {<<PhaseTo[k], m>> : k \in 1..NumPhases, m \in Modes}

PlainPlan == [key \in PlanKeys |-> "plain"]

\* Answers the live agents give that are dicts, as the return type of
\* delegate_to_agent declares: the agent declines, its call reports
\* success false, its call throws.
TypedKinds ==
    [mode \in Modes |->
        IF mode = "Determine" THEN {"declines", "failure", "throws"}
        ELSE {"failure", "throws"}]

\* Those, and an answer that is not a dict.
AnyKinds == [mode \in Modes |-> TypedKinds[mode] \cup {"nondict"}]

\* The plans with at most n pairs that do not give the plain answer.
RECURSIVE PlansUpTo(_, _)
PlansUpTo(n, kinds) ==
    IF n = 0 THEN {PlainPlan}
    ELSE LET fewer == PlansUpTo(n - 1, kinds)
         IN  fewer \cup
             UNION {{[p EXCEPT ![key] = kind] : p \in fewer, kind \in kinds[key[2]]} :
                     key \in PlanKeys}

\* What call_agent does for this delegation under the plan.
BridgeOutcome(real, plan, to_agent, inquiry, mode) ==
    IF ~real THEN BridgeUnused
    ELSE LET kind == IF <<to_agent, mode>> \in PlanKeys
                     THEN plan[<<to_agent, mode>>] ELSE "plain"
         IN  CASE kind = "plain" ->
                    BridgeSuccess(RealResponse(to_agent, inquiry, mode,
                        IF mode = "Determine" THEN "Yes" ELSE Absent))
               [] kind = "declines" ->
                    BridgeSuccess(RealResponse(to_agent, inquiry, mode, "No"))
               [] kind = "nondict" -> BridgeSuccess(NonDictResponse)
               [] kind = "failure" -> BridgeFailure
               [] OTHER -> BridgeThrows

----------------------------------------------------------------------------
(* Actions of the workflow engine *)

\* _handle_determine_call has not been called
NoDetermineCall ==
    /\ arg_agent = Absent
    /\ arg_inquiry = NoText
    /\ determine_result = NonDictResponse

\* the flask application is not running
NoChat ==
    /\ thread_started = FALSE
    /\ clients = <<>>
    /\ loops = <<>>
    /\ user_input_queue = <<>>
    /\ gui_context_queue = <<>>
    /\ cruse_calls = <<>>
    /\ n_user_inputs = 0
    /\ user_inputs_put = <<>>
    /\ n_gui_contexts = 0
    /\ cruse_session = 0
    /\ cruse_agent_state = 0

NoTts ==
    /\ ENABLE_OPENAI_TTS = FALSE
    /\ openai_client = FALSE
    /\ tts_cache = <<>>
    /\ tts_now = 0
    /\ tts_request = <<>>
    /\ tts_reply = <<>>
    /\ n_tts_requests = 0
    /\ n_tts_ticks = 0

\* no coded tool is in use
NoTools ==
    /\ files = {}
    /\ sly_data = <<>>
    /\ tool_call = <<>>
    /\ tool_result = <<>>

\* the engines as their constructors leave them
FreshEngine ==
    /\ trace_lists = << <<>> >>
    /\ delegation_trace = 1
    /\ active_sessions = <<>>
    /\ now = 0
    /\ pc = "idle"
    /\ frame = NoFrame
    /\ last_result = NoResult
    /\ last_response = NoResponse
    /\ last_delegate = NoDelegate
    /\ n_workflows = 0
    /\ n_direct = 0

\* no engine is in use
NoPlan ==
    /\ requirements = [technologies |-> <<>>, complexity |-> ""]
    /\ tasks = <<>>
    /\ timeline_info = [total_duration |-> <<>>, critical_path |-> <<>>,
                        parallel_tasks |-> <<>>]

NoEngine ==
    /\ aaosa_enabled = FALSE
    /\ use_real_agents = FALSE
    /\ bridge_plan = PlainPlan
    /\ FreshEngine

InitEngine(kinds) ==
    /\ aaosa_enabled \in BOOLEAN
    /\ use_real_agents \in (IF aaosa_enabled THEN BOOLEAN ELSE {FALSE})
    /\ bridge_plan \in (IF use_real_agents THEN PlansUpTo(MaxDeviations, kinds)
                        ELSE {PlainPlan})
    /\ FreshEngine
    /\ NoDetermineCall
    /\ NoChat
    /\ NoTts
    /\ NoTools
    /\ NoPlan

\* where execute_workflow_delegation goes after the current phase
Advance(f) ==
    IF f.phase = NumPhases THEN "return" ELSE "determine"

\* a pipeline that leaves out the phase after a declined one
NextPhaseSkipping(f) ==
    IF f.phase >= NumPhases - 1 THEN NumPhases ELSE f.phase + 2

NextPhase(f) ==
    IF f.phase = NumPhases THEN f.phase ELSE f.phase + 1

\* the agents whose answers deviate under a plan
Deviations(plan) == {key \in PlanKeys : plan[key] # "plain"}

\* the calls of execute_workflow an engine is followed for: fewer when
\* more than one live answer deviates
WorkflowBudget ==
    IF use_real_agents /\ Cardinality(Deviations(bridge_plan)) > 1
    THEN MaxLiveWorkflows ELSE MaxWorkflows

\* execute_workflow with AAOSA disabled: _execute_single_agent_workflow
ExecuteSingleAgentWorkflow(workflow_type, user_input, session_arg) ==
    LET session_id == EffectiveSessionId(session_arg, now)
        result == SingleAgentResult(session_id, workflow_type)
    IN  /\ pc = "idle"
        /\ n_workflows < WorkflowBudget
        /\ ~aaosa_enabled
        /\ active_sessions' = StoreSession(active_sessions, session_id,
                                 Session(workflow_type, user_input, SingleAgentStored,
                                         "single_agent_fallback"))
        /\ last_result' = result
        /\ last_response' = InterfaceResponse(result, workflow_type)
        /\ n_workflows' = n_workflows + 1
        /\ UNCHANGED <<nonEngineVars, use_real_agents, aaosa_enabled, bridge_plan, trace_lists,
                       delegation_trace, now, pc, frame, last_delegate, n_direct>>

\* an execute_workflow that stores its session before it delegates
BeginWorkflowStoringSession(workflow_type, user_input, session_arg) ==
    /\ pc = "idle"
    /\ n_workflows < WorkflowBudget
    /\ aaosa_enabled
    /\ frame' = [workflow_type |-> workflow_type, user_requirements |-> user_input,
                 session_id |-> EffectiveSessionId(session_arg, now),
                 phase |-> 1, otrace |-> <<"boss">>, delegation_results |-> <<>>,
                 trace_base |-> Len(trace_lists[delegation_trace])]
    /\ active_sessions' = StoreSession(active_sessions,
                              EffectiveSessionId(session_arg, now),
                              Session(workflow_type, user_input, NoWorkflowResult,
                                      "multi_agent_aaosa"))
    /\ pc' = "determine"
    /\ n_workflows' = n_workflows + 1
    /\ last_result' = NoResult
    /\ last_response' = NoResponse
    /\ UNCHANGED <<nonEngineVars, use_real_agents, aaosa_enabled, bridge_plan, trace_lists,
                   delegation_trace, now, last_delegate, n_direct>>

\* execute_workflow with AAOSA enabled, up to the first delegation
BeginWorkflowDelegation(workflow_type, user_input, session_arg) ==
    /\ pc = "idle"
    /\ n_workflows < WorkflowBudget
    /\ aaosa_enabled
    /\ frame' = [workflow_type |-> workflow_type, user_requirements |-> user_input,
                 session_id |-> EffectiveSessionId(session_arg, now),
                 phase |-> 1, otrace |-> <<"boss">>, delegation_results |-> <<>>,
                 trace_base |-> Len(trace_lists[delegation_trace])]
    /\ pc' = "determine"
    /\ n_workflows' = n_workflows + 1
    /\ last_result' = NoResult
    /\ last_response' = NoResponse
    /\ UNCHANGED <<nonEngineVars, use_real_agents, aaosa_enabled, bridge_plan, trace_lists,
                   delegation_trace, active_sessions, now, last_delegate, n_direct>>

\* a pipeline that asks every agent to fulfill, whatever it answered
FulfillAfterAnyAnswer(answer) == TRUE

\* if determine_result.get("Relevant") == "Yes"
FulfillAfter(answer) == answer.Relevant = "Yes"

\* The Determine delegation of the current phase and the `if` after it.
\* A returned value that is no dict makes .get raise; the exception leaves
\* execute_workflow_delegation and is caught by execute_workflow, whose
\* error result the interface turns into its error string.
DetermineStep ==
    LET from_agent == PhaseFrom[frame.phase]
        to_agent == PhaseTo[frame.phase]
        inquiry == PhaseInquiry(frame.phase, frame.workflow_type, frame.user_requirements)
        bridge == BridgeOutcome(use_real_agents, bridge_plan, to_agent, inquiry, "Determine")
        d == DelegateToAgent(use_real_agents, from_agent, to_agent, inquiry,
                             "Determine", bridge)
        failed == ErrorResult(frame.session_id, "object has no attribute 'get'")
    IN  /\ pc = "determine"
        /\ trace_lists' = AppendToTrace(trace_lists, delegation_trace, d.record)
        /\ last_delegate' = DelegateCallInfo(from_agent, to_agent, inquiry,
                                             "Determine", bridge, d)
        /\ IF ~d.ret.is_dict
           THEN /\ pc' = "idle"
                /\ frame' = NoFrame
                /\ last_result' = failed
                /\ last_response' = InterfaceResponse(failed, frame.workflow_type)
           ELSE /\ IF FulfillAfter(d.ret)
                   THEN /\ pc' = "fulfill"
                        /\ frame' = frame
                   ELSE /\ pc' = Advance(frame)
                        /\ frame' = [frame EXCEPT !.phase = NextPhase(frame)]
                /\ UNCHANGED <<last_result, last_response>>
        /\ UNCHANGED <<nonEngineVars, use_real_agents, aaosa_enabled, bridge_plan, delegation_trace,
                       active_sessions, now, n_workflows, n_direct>>

\* The Fulfill delegation of the current phase and the two appends after it.
FulfillStep ==
    LET from_agent == PhaseFrom[frame.phase]
        to_agent == PhaseTo[frame.phase]
        inquiry == PhaseInquiry(frame.phase, frame.workflow_type, frame.user_requirements)
        bridge == BridgeOutcome(use_real_agents, bridge_plan, to_agent, inquiry, "Fulfill")
        d == DelegateToAgent(use_real_agents, from_agent, to_agent, inquiry,
                             "Fulfill", bridge)
    IN  /\ pc = "fulfill"
        /\ trace_lists' = AppendToTrace(trace_lists, delegation_trace, d.record)
        /\ last_delegate' = DelegateCallInfo(from_agent, to_agent, inquiry,
                                             "Fulfill", bridge, d)
        /\ frame' = [frame EXCEPT
                       !.delegation_results = Append(@, d.ret),
                       !.otrace = Append(@, to_agent),
                       !.phase = NextPhase(frame)]
        /\ pc' = Advance(frame)
        /\ UNCHANGED <<nonEngineVars, use_real_agents, aaosa_enabled, bridge_plan, delegation_trace,
                       active_sessions, now, last_result, last_response,
                       n_workflows, n_direct>>

\* The return of execute_workflow_delegation, the rest of execute_workflow
\* (session stored, result built) and the interface's formatting of it.
ReturnWorkflow ==
    LET wres == WorkflowResult(frame, delegation_trace)
        result == MultiAgentResult(wres, trace_lists)
    IN  /\ pc = "return"
        /\ active_sessions' = StoreSession(active_sessions, frame.session_id,
                                 Session(frame.workflow_type, frame.user_requirements,
                                         wres, "multi_agent_aaosa"))
        /\ last_result' = result
        /\ last_response' = InterfaceResponse(result, frame.workflow_type)
        /\ pc' = "idle"
        /\ frame' = NoFrame
        /\ UNCHANGED <<nonEngineVars, use_real_agents, aaosa_enabled, bridge_plan, trace_lists,
                       delegation_trace, now, last_delegate, n_workflows, n_direct>>

StartWorkflow ==
    \E request \in Requests, session_arg \in SessionIds \cup {NoSessionId} :
        \/ ExecuteSingleAgentWorkflow(request.workflow_type, request.user_input,
                                      session_arg)
        \/ BeginWorkflowDelegation(request.workflow_type, request.user_input,
                                   session_arg)

NextWF ==
    \/ StartWorkflow
    \/ DetermineStep
    \/ FulfillStep
    \/ ReturnWorkflow

\* The workflow engine over live agents whose answers are dicts.
Init == InitEngine(TypedKinds)
Spec == Init /\ [][NextWF]_vars

\* The same over live agents that may answer with something that is no dict.
InitUntyped == InitEngine(AnyKinds)
SpecUntyped == InitUntyped /\ [][NextWF]_vars

----------------------------------------------------------------------------
(* An engine over several seconds, whose live agents may change *)

\* a second passes on the clock datetime.now() reads
Tick ==
    /\ pc = "idle"
    /\ now < MaxClock
    /\ now' = now + 1
    /\ UNCHANGED <<nonEngineVars, use_real_agents, aaosa_enabled, bridge_plan, trace_lists,
                   delegation_trace, active_sessions, pc, frame, last_result,
                   last_response, last_delegate, n_workflows, n_direct>>

\* between two workflows a live agent starts to answer with something that
\* is no dict
AgentsChange ==
    /\ pc = "idle"
    /\ use_real_agents
    /\ bridge_plan = PlainPlan
    /\ bridge_plan' \in {[PlainPlan EXCEPT ![key] = "nondict"] : key \in PlanKeys}
    /\ UNCHANGED <<nonEngineVars, use_real_agents, aaosa_enabled, trace_lists,
                   delegation_trace, active_sessions, now, pc, frame, last_result,
                   last_response, last_delegate, n_workflows, n_direct>>

InitSessions ==
    /\ aaosa_enabled \in BOOLEAN
    /\ use_real_agents \in (IF aaosa_enabled THEN BOOLEAN ELSE {FALSE})
    /\ bridge_plan = PlainPlan
    /\ FreshEngine
    /\ NoDetermineCall
    /\ NoChat
    /\ NoTts
    /\ NoTools
    /\ NoPlan

NextSessions ==
    \/ NextWF
    \/ Tick
    \/ AgentsChange

SpecSessions == InitSessions /\ [][NextSessions]_vars

----------------------------------------------------------------------------
(* delegate_to_agent called directly *)

UnknownAgent == "unknown-agent"
UnknownMode == "Review"

DirectAgents == {"engineer", UnknownAgent}
DirectModes == Modes \cup {UnknownMode}
DirectInquiries == { <<"Build QA">>, <<"x">> }

\* What call_agent may do on a direct call.
DirectBridgeOutcomes(real, to_agent, inquiry, mode) ==
    IF ~real THEN {BridgeUnused}
    ELSE {BridgeSuccess(RealResponse(to_agent, inquiry, mode, "Yes")),
          BridgeSuccess(NonDictResponse), BridgeFailure, BridgeThrows}

InitDelegate ==
    /\ aaosa_enabled = TRUE
    /\ use_real_agents \in BOOLEAN
    /\ bridge_plan = PlainPlan
    /\ FreshEngine
    /\ NoDetermineCall
    /\ NoChat
    /\ NoTts
    /\ NoTools
    /\ NoPlan

\* one call of delegate_to_agent from outside a workflow
DelegateDirect(from_agent, to_agent, inquiry, mode, bridge) ==
    LET d == DelegateToAgent(use_real_agents, from_agent, to_agent, inquiry, mode, bridge)
    IN  /\ pc = "idle"
        /\ n_direct < MaxDirectCalls
        /\ trace_lists' = AppendToTrace(trace_lists, delegation_trace, d.record)
        /\ last_delegate' = DelegateCallInfo(from_agent, to_agent, inquiry, mode, bridge, d)
        /\ n_direct' = n_direct + 1
        /\ UNCHANGED <<nonEngineVars, use_real_agents, aaosa_enabled, bridge_plan,
                       delegation_trace, active_sessions, now, pc, frame, last_result,
                       last_response, n_workflows>>

\* clear_delegation_trace: self.delegation_trace = [], a new list; the old
\* one stays with whoever holds a reference to it
ClearDelegationTrace ==
    /\ pc = "idle"
    /\ Len(trace_lists) < MaxTraceLists
    /\ trace_lists' = Append(trace_lists, <<>>)
    /\ delegation_trace' = Len(trace_lists) + 1
    /\ UNCHANGED <<nonEngineVars, use_real_agents, aaosa_enabled, bridge_plan,
                   active_sessions, now, pc, frame, last_result, last_response,
                   last_delegate, n_workflows, n_direct>>

NextDelegate ==
    \/ \E to_agent \in DirectAgents, inquiry \in DirectInquiries, mode \in DirectModes :
          \E bridge \in DirectBridgeOutcomes(use_real_agents, to_agent, inquiry, mode) :
              DelegateDirect("boss", to_agent, inquiry, mode, bridge)
    \/ ClearDelegationTrace

SpecDelegate == InitDelegate /\ [][NextDelegate]_vars

\* C3: for any string inquiry delegate_to_agent returns to its caller, and
\* when the live bridge is absent, when it reports success false and when
\* it throws, what it returns is the simulated response computed for the
\* same to_agent, inquiry and mode.
C3_FallbackIsSimulatedResponse ==
    (last_delegate # NoDelegate
     /\ last_delegate.bridge \in {"unused", "failure", "throws"}) =>
        /\ last_delegate.ret.is_dict
        /\ last_delegate.ret = SimulateAgentResponse(last_delegate.to_agent,
                                   last_delegate.inquiry, last_delegate.mode)

\* The bridge threw on a Determine call and the caller got the simulated
\* answer of the engineer, relevant by the keyword "build".
C3_Witness ==
    /\ last_delegate.bridge = "throws"
    /\ last_delegate.to_agent = "engineer"
    /\ last_delegate.mode = "Determine"
    /\ last_delegate.ret.Relevant = "Yes"
    /\ Len(trace_lists[delegation_trace]) = 2

----------------------------------------------------------------------------
(* _handle_determine_call as a function of its arguments *)

InquiryChunks == {"pl", "an", "QA", "T", "est", "PRD", "Code", "Design"}

RECURSIVE InquiriesUpTo(_)
InquiriesUpTo(n) ==
    IF n = 0 THEN {<<>>}
    ELSE LET shorter == InquiriesUpTo(n - 1)
         IN  shorter \cup {Append(i, c) : i \in shorter, c \in InquiryChunks}

InitDetermine ==
    /\ arg_agent \in Agents \cup {UnknownAgent}
    /\ arg_inquiry \in InquiriesUpTo(MaxInquiryChunks)
    /\ determine_result = NonDictResponse
    /\ NoEngine
    /\ NoChat
    /\ NoTts
    /\ NoTools
    /\ NoPlan

CallHandleDetermine ==
    /\ determine_result = NonDictResponse
    /\ determine_result' = HandleDetermineCall(arg_agent, arg_inquiry)
    /\ UNCHANGED <<nonDetermineVars, arg_agent, arg_inquiry>>

SpecDetermine == InitDetermine /\ [][CallHandleDetermine]_vars

\* the agents relevance_keywords has a list for
AgentsWithKeywords ==
    {"product-manager", "architect", "project-manager", "engineer", "qa"}

\* C4: a simulated Determine response has Relevant "Yes" exactly when a
\* keyword of the agent's list occurs as a substring of the lower-cased
\* inquiry; Strength is 8 and Claim "All" exactly when Relevant is "Yes",
\* otherwise 3 and "Partial"; an agent without a keyword list (boss, an
\* unknown name) is never relevant.
C4_RelevantIffKeywordInLoweredInquiry ==
    determine_result # NonDictResponse =>
        LET lowered == Lower(Text(arg_inquiry))
            hit == \E keyword \in RelevanceKeywords(arg_agent) :
                      \E at \in 0..(Len(lowered) - Len(keyword)) :
                          \A j \in 1..Len(keyword) : lowered[at + j] = keyword[j]
            yes == determine_result.Relevant = "Yes"
        IN  /\ determine_result.Relevant \in {"Yes", "No"}
            /\ yes <=> hit
            /\ yes => determine_result.Strength = 8 /\ determine_result.Claim = "All"
            /\ ~yes => determine_result.Strength = 3 /\ determine_result.Claim = "Partial"
            /\ arg_agent \notin AgentsWithKeywords => ~yes
            /\ determine_result.Name = arg_agent
            /\ determine_result.Mode = "Determine"

\* qa is relevant for an inquiry that holds its keyword only in upper case
\* and across two chunks.
C4_Witness ==
    /\ arg_agent = "qa"
    /\ arg_inquiry = <<"T", "est">>
    /\ determine_result.Relevant = "Yes"

----------------------------------------------------------------------------
(* The fixed pipeline *)

ChainOfCommand ==
    <<"boss", "product-manager", "architect", "project-manager", "engineer", "qa">>

\* The (from, to) pairs of the Determine delegations the running call of
\* execute_workflow_delegation has issued, in the order it issued them.
DeterminesOfCall ==
    LET trace == trace_lists[delegation_trace]
        mine == SubSeq(trace, frame.trace_base + 1, Len(trace))
        determines == SelectSeq(mine, LAMBDA r : r.mode = "Determine")
    IN  [i \in 1..Len(determines) |->
            <<determines[i].from_agent, determines[i].to_agent>>]

C2_OtraceHoldsAllSixAgents ==
    (~use_real_agents /\ last_result.mode = "multi_agent_aaosa") =>
        last_result.otrace = ChainOfCommand

\* C5: WorkflowEngine.execute_workflow does not raise when the delegation
\* engine throws during a workflow: it returns a result with success False,
\* mode "error" and the error text, and the interface execute_workflow turns
\* that result into an error string.
C5_EngineErrorBecomesErrorString ==
    [][(pc = "determine" /\ ~last_delegate'.ret.is_dict) =>
          /\ pc' = "idle"
          /\ last_result'.success = FALSE
          /\ last_result'.mode = "error"
          /\ last_result'.error # Absent
          /\ last_result'.session_id = frame.session_id
          /\ last_response'.kind = "error_string"
          /\ last_response'.error = last_result'.error]_vars

\* A workflow ended in the except clause of execute_workflow after a live
\* agent answered its third Determine with something that is no dict.
C5_Witness ==
    /\ pc = "idle"
    /\ last_result.mode = "error"
    /\ last_response.kind = "error_string"
    /\ ~last_delegate.ret.is_dict
    /\ last_delegate.to_agent = "project-manager"

----------------------------------------------------------------------------
(* apps/cruse/interface_flask.py: the /chat namespace and the chat loop *)

Clients == {"c1", "c2"}
UserInputs == {"", "hi", "yo", "exit"}
GuiContexts == {"ctx"}

\* cruse_thinking_process at its first socketio.sleep(1), user_input = ""
\* `session` is the cruse_session a call of cruse in flight was given, and 0
\* while the loop is in no call
NewLoop == [pc |-> "poll", user_input |-> "", session |-> 0]

\* cruse_session, cruse_agent_state = set_up_cruse_assistant(...): the
\* sessions are numbered from 1 in the order they are set up, and an agent
\* state is known by the session it is a state of.
InitChat ==
    /\ thread_started = FALSE
    /\ clients = [c \in Clients |-> "disconnected"]
    /\ loops = <<>>
    /\ user_input_queue = <<>>
    /\ gui_context_queue = <<>>
    /\ cruse_calls = <<>>
    /\ n_user_inputs = 0
    /\ user_inputs_put = <<>>
    /\ n_gui_contexts = 0
    /\ cruse_session = 1
    /\ cruse_agent_state = 1
    /\ NoEngine
    /\ NoDetermineCall
    /\ NoTts
    /\ NoTools
    /\ NoPlan

\* on_connect up to its test `if not thread_started`.  socketio.run is
\* given allow_unsafe_werkzeug=True, which matters in Flask-SocketIO's
\* threading mode only; there every handler runs in a thread of its own and
\* another handler may run between this test and the assignment that
\* follows it.  Under eventlet or gevent the two steps are never separated.
OnConnectTest(c) ==
    /\ clients[c] = "disconnected"
    /\ clients' = [clients EXCEPT ![c] =
                      IF thread_started THEN "connected" ELSE "starting"]
    /\ UNCHANGED <<nonChatVars, cruse_session, cruse_agent_state,
                   thread_started, loops, user_input_queue,
                   gui_context_queue, cruse_calls, n_user_inputs, user_inputs_put,
                   n_gui_contexts>>

\* on_connect after the test found thread_started false:
\* thread_started = True; socketio.start_background_task(cruse_thinking_process)
OnConnectStart(c) ==
    /\ clients[c] = "starting"
    /\ thread_started' = TRUE
    /\ loops' = Append(loops, NewLoop)
    /\ clients' = [clients EXCEPT ![c] = "connected"]
    /\ UNCHANGED <<nonChatVars, cruse_session, cruse_agent_state,
                   user_input_queue, gui_context_queue, cruse_calls,
                   n_user_inputs, user_inputs_put,
                   n_gui_contexts>>

\* a client goes away; the application has no handler for it
Disconnect(c) ==
    /\ clients[c] = "connected"
    /\ clients' = [clients EXCEPT ![c] = "disconnected"]
    /\ UNCHANGED <<nonChatVars, cruse_session, cruse_agent_state,
                   thread_started, loops, user_input_queue,
                   gui_context_queue, cruse_calls, n_user_inputs, user_inputs_put,
                   n_gui_contexts>>

\* handle_user_input
HandleUserInput(c, user_input) ==
    /\ clients[c] = "connected"
    /\ n_user_inputs < MaxUserInputs
    /\ user_input_queue' = Append(user_input_queue, user_input)
    /\ n_user_inputs' = n_user_inputs + 1
    /\ user_inputs_put' = Append(user_inputs_put, user_input)
    /\ UNCHANGED <<nonChatVars, cruse_session, cruse_agent_state,
                   thread_started, clients, loops, gui_context_queue,
                   cruse_calls, n_gui_contexts>>

\* handle_gui_context
HandleGuiContext(c, gui_context) ==
    /\ clients[c] = "connected"
    /\ n_gui_contexts < MaxGuiContexts
    /\ gui_context_queue' = Append(gui_context_queue, gui_context)
    /\ n_gui_contexts' = n_gui_contexts + 1
    /\ UNCHANGED <<nonChatVars, cruse_session, cruse_agent_state,
                   thread_started, clients, loops, user_input_queue,
                   cruse_calls, n_user_inputs, user_inputs_put>>

\* The loop after socketio.sleep(1): gui_context_queue.get_nowait(), the
\* test `if user_input or gui_context` and, when it holds, the call of cruse.
\* The local gui_context is read by this round only and is kept in
\* cruse_calls.
LoopPoll(l) ==
    LET gui_context == IF gui_context_queue = <<>> THEN ""
                       ELSE Head(gui_context_queue)
        calls == loops[l].user_input # "" \/ gui_context # ""
    IN  /\ loops[l].pc = "poll"
        /\ gui_context_queue' = IF gui_context_queue = <<>> THEN <<>>
                                ELSE Tail(gui_context_queue)
        /\ loops' = [loops EXCEPT
                        ![l].pc = IF calls THEN "cruse" ELSE "dequeue",
                        ![l].session = IF calls THEN cruse_session ELSE 0]
        /\ cruse_calls' = IF calls
                          THEN Append(cruse_calls,
                                      [user_input |-> loops[l].user_input,
                                       gui_context |-> gui_context])
                          ELSE cruse_calls
        /\ UNCHANGED <<nonChatVars, cruse_session, cruse_agent_state,
                       thread_started, clients, user_input_queue,
                       n_user_inputs, user_inputs_put, n_gui_contexts>>

\* cruse returns; `response, cruse_agent_state = cruse(...)` assigns the
\* state the call returns, a state of the session the call was given, and
\* the response is parsed and emitted.  (A cruse that raises ends the
\* background task; the loops here are loops that run.)
CruseReturns(l) ==
    /\ loops[l].pc = "cruse"
    /\ loops' = [loops EXCEPT ![l].pc = "dequeue", ![l].session = 0]
    /\ cruse_agent_state' = loops[l].session
    /\ UNCHANGED <<nonChatVars, cruse_session,
                   thread_started, clients, user_input_queue,
                   gui_context_queue, cruse_calls, n_user_inputs, user_inputs_put,
                   n_gui_contexts>>

\* a loop that keeps its user_input when the queue is empty
LoopDequeueKeepingInput(l) ==
    /\ loops[l].pc = "dequeue"
    /\ IF user_input_queue = <<>>
       THEN /\ loops' = [loops EXCEPT ![l].pc = "poll"]
            /\ UNCHANGED user_input_queue
       ELSE /\ loops' = [loops EXCEPT
                           ![l].user_input = Head(user_input_queue),
                           ![l].pc = IF Head(user_input_queue) = "exit"
                                     THEN "ended" ELSE "poll"]
            /\ user_input_queue' = Tail(user_input_queue)
    /\ UNCHANGED <<nonChatVars, cruse_session, cruse_agent_state,
                   thread_started, clients, gui_context_queue,
                   cruse_calls, n_user_inputs, user_inputs_put, n_gui_contexts>>

\* user_input_queue.get_nowait(): `break` on "exit", and on queue.Empty
\* user_input = "" and the next round
LoopDequeue(l) ==
    /\ loops[l].pc = "dequeue"
    /\ IF user_input_queue = <<>>
       THEN /\ loops' = [loops EXCEPT ![l].user_input = "", ![l].pc = "poll"]
            /\ UNCHANGED user_input_queue
       ELSE /\ loops' = [loops EXCEPT
                           ![l].user_input = Head(user_input_queue),
                           ![l].pc = IF Head(user_input_queue) = "exit"
                                     THEN "ended" ELSE "poll"]
            /\ user_input_queue' = Tail(user_input_queue)
    /\ UNCHANGED <<nonChatVars, cruse_session, cruse_agent_state,
                   thread_started, clients, gui_context_queue,
                   cruse_calls, n_user_inputs, user_inputs_put, n_gui_contexts>>

NextChat ==
    \/ \E c \in Clients : OnConnectTest(c)
    \/ \E c \in Clients : OnConnectStart(c)
    \/ \E c \in Clients : Disconnect(c)
    \/ \E c \in Clients, user_input \in UserInputs : HandleUserInput(c, user_input)
    \/ \E c \in Clients, gui_context \in GuiContexts : HandleGuiContext(c, gui_context)
    \/ \E l \in DOMAIN loops : LoopPoll(l)
    \/ \E l \in DOMAIN loops : CruseReturns(l)
    \/ \E l \in DOMAIN loops : LoopDequeue(l)

SpecChat == InitChat /\ [][NextChat]_vars

\* handle_new_chat with a selected agent (data names one, or the first
\* available system is taken): the session is torn down and a new one set
\* up with its state.  Without any system the handler returns at once.
HandleNewChat(c) ==
    /\ clients[c] = "connected"
    /\ cruse_session < MaxSessions
    /\ cruse_session' = cruse_session + 1
    /\ cruse_agent_state' = cruse_session + 1
    /\ UNCHANGED <<nonChatVars, thread_started, clients, loops, user_input_queue,
                   gui_context_queue, cruse_calls, n_user_inputs,
                   user_inputs_put, n_gui_contexts>>

NextNewChat ==
    \/ NextChat
    \/ \E c \in Clients : HandleNewChat(c)

SpecNewChat == InitChat /\ [][NextNewChat]_vars

\* a step of a chat loop; socketio resumes a background task whose sleep
\* is over
LoopStep ==
    \E l \in DOMAIN loops : LoopPoll(l) \/ CruseReturns(l) \/ LoopDequeue(l)

SpecChatFair == SpecChat /\ WF_vars(LoopStep)

\* C6: at most one cruse_thinking_process loop is ever started, however
\* many clients connect or reconnect to the /chat namespace.
C6_AtMostOneLoopStarted ==
    Len(loops) <= 1

----------------------------------------------------------------------------
(* apps/cruse/interface_flask.py: POST /tts *)

\* int(os.getenv("TTS_AUDIO_CACHE_TTL_SECONDS", "600"))
TTS_CACHE_TTL == 600
\* os.getenv("OPENAI_TTS_MODEL", "tts-1")
OPENAI_TTS_MODEL == <<"tts-1">>
OPENAI_TTS_VOICE == <<"coral">>
\* os.getenv("OPENAI_TTS_FORMAT", "mp3")
OPENAI_TTS_FORMAT == <<"mp3">>

Whitespace == {" "}

RECURSIVE LStrip(_)
LStrip(chars) ==
    IF chars # <<>> /\ Head(chars) \in Whitespace THEN LStrip(Tail(chars)) ELSE chars

RECURSIVE RStrip(_)
RStrip(chars) ==
    IF chars # <<>> /\ chars[Len(chars)] \in Whitespace
    THEN RStrip(SubSeq(chars, 1, Len(chars) - 1)) ELSE chars

\* str.strip()
Strip(chars) == RStrip(LStrip(chars))

\* (data.get(name) or default).strip(); a field that is missing, None or
\* "" is the empty string here
FieldOr(field, default) ==
    Strip(Text(IF field = <<>> THEN default ELSE field))

\* f"{model}|{voice}|{audio_format}|{text}", which names the cache file:
\* the file name is the first 40 hex digits of its SHA-256, taken here to
\* differ whenever the hashed strings differ
CacheKey(model, voice, audio_format, text) ==
    model \o <<"|">> \o voice \o <<"|">> \o audio_format \o <<"|">> \o text

\* the expiry test with the age allowed to equal the TTL
IsFreshInclusive(cache, key, t) ==
    key \in DOMAIN cache /\ (t - cache[key]) <= TTS_CACHE_TTL

\* fname.exists() and (time.time() - fname.stat().st_mtime) < TTS_CACHE_TTL
IsFresh(cache, key, t) ==
    key \in DOMAIN cache /\ (t - cache[key]) < TTS_CACHE_TTL

\* fallback_models
FallbackModels(model) ==
    LET first == <<model>>
        second == IF model \notin {Text(<<"tts-1">>), Text(<<"tts-1-hd">>)}
                  THEN Append(first, Text(<<"tts-1">>)) ELSE first
    IN  IF IsSubstring(<<"m","i","n","i">>, model)
           /\ \A i \in 1..Len(second) : second[i] # Text(<<"gpt-4o-mini-tts">>)
        THEN Append(second, Text(<<"gpt-4o-mini-tts">>)) ELSE second

\* What client.audio.speech.create does for one model: it returns audio,
\* it fails, or it rejects each of the three parameter styles with a
\* TypeError.
ServiceOutcomes == {"audio", "error", "type_error"}

TtsReply(status, x_cache, tts_model, attempted, wrote, err) ==
    [status |-> status, x_cache |-> x_cache, tts_model |-> tts_model,
     attempted |-> attempted, wrote |-> wrote, error |-> err]

NoTtsReply == TtsReply(0, Absent, <<>>, 0, FALSE, Absent)
NoTtsRequest == [text |-> <<>>, model |-> <<>>, voice |-> <<>>]

\* the loop `for attempt_model in fallback_models`, from its i-th round on
RECURSIVE Generate(_, _, _, _)
Generate(models, outcomes, i, file_exists) ==
    IF i > Len(models)
    THEN TtsReply(500, Absent, <<>>, Len(models), FALSE, "all model attempts failed")
    ELSE CASE outcomes[i] = "audio" ->
                TtsReply(200, "MISS", models[i], i, TRUE, Absent)
           [] outcomes[i] = "type_error" /\ file_exists ->
                TtsReply(200, "MISS", models[i], i, FALSE, Absent)
           [] OTHER -> Generate(models, outcomes, i + 1, file_exists)

\* open(fname, "wb") ... f.write(audio_bytes)
StoreFile(cache, key, t) ==
    [k \in (DOMAIN cache) \cup {key} |-> IF k = key THEN t ELSE cache[k]]

\* tts_generate: the reply, given what the service does for each model
TtsGenerate(data, outcomes, cache, t) ==
    IF ~ENABLE_OPENAI_TTS \/ ~openai_client
    THEN TtsReply(400, Absent, <<>>, 0, FALSE, "OpenAI TTS disabled")
    ELSE LET text == FieldOr(data.text, <<>>)
             model == FieldOr(data.model, OPENAI_TTS_MODEL)
             voice == FieldOr(data.voice, OPENAI_TTS_VOICE)
             key == CacheKey(model, voice, Text(OPENAI_TTS_FORMAT), text)
         IN  IF text = <<>>
             THEN TtsReply(400, Absent, <<>>, 0, FALSE, "No text")
             ELSE IF IsFresh(cache, key, t)
                  THEN TtsReply(200, "HIT", <<>>, 0, FALSE, Absent)
                  ELSE Generate(FallbackModels(model), outcomes, 1,
                                key \in DOMAIN cache)

\* the key tts_generate computes for a request body
RequestKey(data) ==
    CacheKey(FieldOr(data.model, OPENAI_TTS_MODEL),
             FieldOr(data.voice, OPENAI_TTS_VOICE),
             Text(OPENAI_TTS_FORMAT), FieldOr(data.text, <<>>))

\* the JSON bodies the requests of the model carry
TtsBodies ==
    { [text |-> <<"hi">>, model |-> <<>>, voice |-> <<>>],
      [text |-> <<" ", "hi">>, model |-> <<>>, voice |-> <<>>],
      [text |-> <<" ">>, model |-> <<>>, voice |-> <<>>],
      [text |-> <<"yo">>, model |-> <<>>, voice |-> <<>>],
      [text |-> <<"hi">>, model |-> <<"my-mini">>, voice |-> <<"alloy">>] }

\* what the service does for each model of the fallback list of a body
OutcomesFor(data) ==
    [1..Len(FallbackModels(FieldOr(data.model, OPENAI_TTS_MODEL))) -> ServiceOutcomes]

\* the seconds that pass at the k-th step of the clock
ClockStep(k) == IF k = 1 THEN TTS_CACHE_TTL - 1 ELSE 1

InitTts ==
    /\ ENABLE_OPENAI_TTS \in BOOLEAN
    /\ openai_client \in (IF ENABLE_OPENAI_TTS THEN BOOLEAN ELSE {FALSE})
    /\ tts_cache = <<>>
    /\ tts_now = 0
    /\ tts_request = NoTtsRequest
    /\ tts_reply = NoTtsReply
    /\ n_tts_requests = 0
    /\ n_tts_ticks = 0
    /\ NoEngine
    /\ NoDetermineCall
    /\ NoChat
    /\ NoTools
    /\ NoPlan

TtsTick ==
    /\ n_tts_ticks < MaxTtsTicks
    /\ tts_now' = tts_now + ClockStep(n_tts_ticks + 1)
    /\ n_tts_ticks' = n_tts_ticks + 1
    /\ UNCHANGED <<nonTtsVars, ENABLE_OPENAI_TTS, openai_client, tts_cache,
                   tts_request, tts_reply, n_tts_requests>>

\* one POST /tts
TtsRequest(data, outcomes) ==
    LET reply == TtsGenerate(data, outcomes, tts_cache, tts_now)
    IN  /\ n_tts_requests < MaxTtsRequests
        /\ tts_request' = data
        /\ tts_reply' = reply
        /\ tts_cache' = IF reply.wrote
                        THEN StoreFile(tts_cache, RequestKey(data), tts_now)
                        ELSE tts_cache
        /\ n_tts_requests' = n_tts_requests + 1
        /\ UNCHANGED <<nonTtsVars, ENABLE_OPENAI_TTS, openai_client, tts_now,
                       n_tts_ticks>>

NextTts ==
    \/ TtsTick
    \/ \E data \in TtsBodies :
          \E outcomes \in OutcomesFor(data) : TtsRequest(data, outcomes)

SpecTts == InitTts /\ [][NextTts]_vars

\* the file of the request's key exists and is less than TTS_CACHE_TTL
\* seconds old when the request arrives
FreshFileFor(data) ==
    LET key == RequestKey(data)
    IN  key \in DOMAIN tts_cache /\ tts_now - tts_cache[key] < TTS_CACHE_TTL

\* C7 as stated: a POST /tts with non-empty text is answered from the
\* cache (X-Cache: HIT, no call of the TTS service) exactly when the file
\* for the key derived from (model, voice, format, text) exists and is less
\* than TTS_CACHE_TTL seconds old; in every other case generation is
\* attempted.
C7_NonEmptyTextHitIffFresh ==
    [][(n_tts_requests' = n_tts_requests + 1 /\ Text(tts_request'.text) # <<>>) =>
          /\ (tts_reply'.x_cache = "HIT" /\ tts_reply'.attempted = 0)
                <=> FreshFileFor(tts_request')
          /\ ~FreshFileFor(tts_request') => tts_reply'.attempted >= 1]_vars

\* C7, amended: when remote TTS is enabled with a client and the text is
\* non-empty after stripping white space, the request is answered from the
\* cache (X-Cache: HIT, no call of the TTS service) exactly when the file
\* for its key exists and is less than TTS_CACHE_TTL seconds old, and
\* otherwise generation is attempted; when TTS is disabled or the stripped
\* text is empty the reply is a 400 with neither.
C7_EnabledStrippedTextHitIffFresh ==
    [][n_tts_requests' = n_tts_requests + 1 =>
          LET data == tts_request'
              served == ENABLE_OPENAI_TTS /\ openai_client
                        /\ Strip(Text(data.text)) # <<>>
              hit == tts_reply'.x_cache = "HIT"
          IN  /\ served =>
                    /\ hit <=> FreshFileFor(data)
                    /\ hit => tts_reply'.attempted = 0 /\ tts_reply'.status = 200
                              /\ tts_cache' = tts_cache
                    /\ ~hit => tts_reply'.attempted >= 1
              /\ ~served =>
                    /\ tts_reply'.status = 400
                    /\ ~hit
                    /\ tts_reply'.attempted = 0]_vars

\* A second request for the same text found the file written by the first
\* one still fresh, at an age of TTS_CACHE_TTL - 1 seconds.
C7_Witness ==
    /\ tts_reply.x_cache = "HIT"
    /\ tts_now = TTS_CACHE_TTL - 1
    /\ n_tts_requests = 2

----------------------------------------------------------------------------
(* coded_tools/cloud_infrastructure_provider: the invoke methods *)

\* a key the args dict does not hold
Missing == <<"<missing>">>

\* args.get(key, default)
Get(field, default) == IF field = Missing THEN default ELSE field

\* os.path.join(a, b) for a relative b
Join(a, b) ==
    IF a = <<>> THEN b
    ELSE IF Text(a)[Len(Text(a))] = "/" THEN a \o b
    ELSE a \o <<"/">> \o b

\* `not value` for a str
Falsy(value) == Text(value) = <<>>

ToolValue(kind, success, text, detail) ==
    [kind |-> kind, success |-> success, text |-> text, detail |-> detail]

\* the outcomes of the body of an invoke: it returns a value, having
\* written files, or an exception leaves it
Return(value, writes) ==
    [raised |-> FALSE, exception |-> Absent, value |-> value, writes |-> writes]
Raise(exception) ==
    [raised |-> TRUE, exception |-> exception,
     value |-> ToolValue("none", FALSE, Absent, <<>>), writes |-> {}]

\* an invoke whose body is not inside try/except
TryExceptMissing(outcome, kind, text) == outcome

\* try: <body> except Exception as e: return <error value with str(e)>
TryExcept(outcome, kind, text) ==
    IF outcome.raised
    THEN Return(ToolValue(kind, FALSE, text, <<outcome.exception>>), {})
    ELSE outcome

\* The body of an invoke raises AttributeError on args.get when args is no
\* dict, and OSError when the file system refuses its first operation.

\* DesignDocumentCreator.invoke
DesignDocumentCreatorInvoke(args, existing, fs_ok) ==
    LET project_name == Get(args.project_name, <<>>)
        docs_dir == Join(Join(<<"output">>, project_name), <<"docs">>)
        design_path == Join(docs_dir, <<"design.md">>)
        body ==
            IF ~args.is_dict THEN Raise("AttributeError")
            ELSE IF Falsy(project_name)
            THEN Return(ToolValue("str", FALSE,
                            "Error: project_name parameter is required", <<>>), {})
            ELSE IF ~fs_ok THEN Raise("OSError")
            ELSE Return(ToolValue("str", TRUE,
                            "Design document successfully created at", Text(design_path)),
                        {Text(design_path)})
    IN  TryExcept(body, "str", "Error: Failed to create design document - ")

\* ProjectPlanCreator.invoke
ProjectPlanCreatorInvoke(args, existing, fs_ok) ==
    LET project_name == Get(args.project_name, <<>>)
        output_dir == <<"output/">> \o project_name
        docs_dir == Join(output_dir, <<"docs">>)
        plan_path == Join(docs_dir, <<"project_plan.md">>)
        body ==
            IF ~args.is_dict THEN Raise("AttributeError")
            ELSE IF Falsy(project_name)
            THEN Return(ToolValue("str", FALSE,
                            "Error: project_name parameter is required", <<>>), {})
            ELSE IF ~fs_ok THEN Raise("OSError")
            ELSE Return(ToolValue("str", TRUE,
                            "Project plan successfully created at", Text(plan_path)),
                        {Text(plan_path)})
    IN  TryExcept(body, "str", "Error: Failed to create project plan - ")

\* the files _create_main_tf .. _create_readme write
TerraformFileNames ==
    {"main.tf", "variables.tf", "outputs.tf", "terraform.tfvars", "README.md"}

\* TerraformBuilder.invoke
TerraformBuilderInvoke(args, existing, fs_ok) ==
    LET project_name == Get(args.project_name, <<>>)
        output_dir == Get(args.output_dir, <<"output/">> \o project_name)
        terraform_dir == Join(output_dir, <<"terraform">>)
        body ==
            IF ~args.is_dict THEN Raise("AttributeError")
            ELSE IF Falsy(project_name)
            THEN Return(ToolValue("str", FALSE,
                            "Error: project_name parameter is required", <<>>), {})
            ELSE IF ~fs_ok THEN Raise("OSError")
            ELSE Return(ToolValue("str", TRUE,
                            "Terraform infrastructure successfully generated at",
                            Text(terraform_dir)),
                        {Text(Join(terraform_dir, <<name>>)) : name \in TerraformFileNames})
    IN  TryExcept(body, "str", "Error: Failed to generate Terraform infrastructure - ")

\* the files of "files_created"
AnsibleFileNames == { <<"playbook.yml">>, <<"inventory.ini">>, <<"vars", "/", "main.yml">> }

\* AnsibleBuilder.invoke
AnsibleBuilderInvoke(args, existing, fs_ok) ==
    LET project_name == Get(args.project_name, <<"sample_project">>)
        output_dir == Get(args.output_dir, <<"output/">> \o project_name)
        design_path == Join(Join(output_dir, <<"docs">>), <<"design.md">>)
        ansible_dir == Join(output_dir, <<"ansible">>)
        \* _generate_task_files: the default requirements hold the service
        \* nginx; the ones parsed from a design document hold no services,
        \* no databases and no firewall
        task_files ==
            IF Text(design_path) \in existing THEN {}
            ELSE {<<"tasks", "/", "nginx.yml">>}
        body ==
            IF ~args.is_dict THEN Raise("AttributeError")
            ELSE IF ~fs_ok THEN Raise("OSError")
            ELSE Return(ToolValue("dict", TRUE,
                            "Ansible configuration generated for", Text(project_name)),
                        {Text(Join(ansible_dir, name)) :
                            name \in AnsibleFileNames \cup task_files})
    IN  TryExcept(body, "dict", "Failed to generate Ansible configuration: ")

Tools == {"DesignDocumentCreator", "ProjectPlanCreator", "TerraformBuilder",
          "AnsibleBuilder"}

ToolInvoke(tool, args, existing, fs_ok) ==
    CASE tool = "DesignDocumentCreator" -> DesignDocumentCreatorInvoke(args, existing, fs_ok)
      [] tool = "ProjectPlanCreator" -> ProjectPlanCreatorInvoke(args, existing, fs_ok)
      [] tool = "TerraformBuilder" -> TerraformBuilderInvoke(args, existing, fs_ok)
      [] OTHER -> AnsibleBuilderInvoke(args, existing, fs_ok)

Args(is_dict, project_name, project_details, output_dir, design_path, timestamp) ==
    [is_dict |-> is_dict, project_name |-> project_name,
     project_details |-> project_details, output_dir |-> output_dir,
     design_path |-> design_path, timestamp |-> timestamp]

TestTimestamp == <<"07162025140200">>
TestDesignPath == <<"output/", "LZ_", "07162025140200", "/", "docs", "/", "design.md">>

\* the args the tools of the model are invoked with
ToolArgs ==
    { Args(FALSE, Missing, Missing, Missing, Missing, Missing),
      Args(TRUE, Missing, Missing, Missing, Missing, Missing),
      Args(TRUE, Missing, Missing, Missing, Missing, TestTimestamp),
      Args(TRUE, Missing, Missing, Missing, <<"/some/path/design.md">>, Missing),
      Args(TRUE, Missing, Missing, Missing, <<"/non/existent/design.md">>, TestTimestamp),
      Args(TRUE, Missing, <<"landing zone">>, Missing, Missing, TestTimestamp),
      Args(TRUE, <<"LZ_", "07162025140200">>, Missing, Missing, Missing, Missing),
      Args(TRUE, <<"LZ_", "07162025140200">>, <<"landing zone">>, Missing,
           TestDesignPath, TestTimestamp) }

NoToolCall == [tool |-> Absent, args |-> Args(FALSE, Missing, Missing, Missing, Missing, Missing)]
NoToolResult == [raised |-> FALSE, value |-> ToolValue("none", FALSE, Absent, <<>>)]

InitTools ==
    /\ files = {}
    /\ sly_data = <<>>
    /\ tool_call = NoToolCall
    /\ tool_result = NoToolResult
    /\ NoEngine
    /\ NoDetermineCall
    /\ NoChat
    /\ NoTts
    /\ NoPlan

\* One invoke.  None of the four invoke methods assigns to sly_data.  An
\* exception that left an invoke would end the workflow that called it.
Invoke(tool, args, fs_ok) ==
    LET outcome == ToolInvoke(tool, args, files, fs_ok)
    IN  /\ ~tool_result.raised
        /\ tool_call' = [tool |-> tool, args |-> args]
        /\ tool_result' = [raised |-> outcome.raised, value |-> outcome.value]
        /\ files' = files \cup outcome.writes
        /\ UNCHANGED <<nonToolVars, sly_data>>

NextTools ==
    \E tool \in Tools, args \in ToolArgs, fs_ok \in BOOLEAN : Invoke(tool, args, fs_ok)

SpecTools == InitTools /\ [][NextTools]_vars

\* C8: the invoke of each coded tool returns an error string or an error
\* dict instead of raising, for any args, whatever the file system does, so
\* that a failed step does not keep a later tool from being invoked (an
\* invocation that raised would end the run: Invoke is guarded by
\* ~tool_result.raised).
C8_InvokeReturnsInsteadOfRaising ==
    tool_call # NoToolCall =>
        /\ ~tool_result.raised
        /\ tool_result.value.kind \in {"str", "dict"}
        /\ (~tool_result.value.success /\ tool_result.value.kind = "dict") =>
               tool_result.value.text = "Failed to generate Ansible configuration: "
        /\ (~tool_result.value.success /\ tool_result.value.kind = "str") =>
               tool_result.value.text \in
                   {"Error: project_name parameter is required",
                    "Error: Failed to create design document - ",
                    "Error: Failed to create project plan - ",
                    "Error: Failed to generate Terraform infrastructure - "}

\* The file system refused TerraformBuilder's makedirs, the builder
\* returned its error string, and terraform files exist from an earlier call.
C8_Witness ==
    /\ tool_call.tool = "TerraformBuilder"
    /\ tool_result.value.text = "Error: Failed to generate Terraform infrastructure - "
    /\ tool_result.value.detail = <<"OSError">>
    /\ files # {}

\* C9: TerraformBuilder.invoke and AnsibleBuilder.invoke check their
\* arguments in a fixed order: "Error: design_path parameter is required"
\* when design_path is missing, "Error: timestamp parameter is required"
\* when design_path is given and timestamp is missing, "Error: Design file
\* not found" when both are given and the design file does not exist.
C9_ArgumentChecksInFixedOrder ==
    (tool_call.tool \in {"TerraformBuilder", "AnsibleBuilder"} /\ tool_call.args.is_dict) =>
        LET args == tool_call.args
        IN  /\ args.design_path = Missing =>
                   tool_result.value.text = "Error: design_path parameter is required"
            /\ (args.design_path # Missing /\ args.timestamp = Missing) =>
                   tool_result.value.text = "Error: timestamp parameter is required"
            /\ (args.design_path # Missing /\ args.timestamp # Missing
                /\ Text(args.design_path) \notin files) =>
                   tool_result.value.text = "Error: Design file not found"

\* C10: when the four tools are invoked with the same timestamp and one
\* shared sly_data, after every step that succeeds sly_data's
\* project_timestamp is that timestamp, its output_directory is
\* output/LZ_<timestamp>, and every file the step wrote lies below it.
C10_OutputsUnderOneTimestampDirectory ==
    [][(tool_call'.args.is_dict /\ tool_call'.args.timestamp # Missing
        /\ tool_result'.value.success) =>
          LET timestamp == tool_call'.args.timestamp
              output_directory == Text(<<"output/", "LZ_">> \o timestamp)
          IN  /\ "project_timestamp" \in DOMAIN sly_data'
              /\ sly_data'["project_timestamp"] = Text(timestamp)
              /\ "output_directory" \in DOMAIN sly_data'
              /\ sly_data'["output_directory"] = output_directory
              /\ \A f \in files' \ files :
                    /\ Len(f) > Len(output_directory)
                    /\ SubSeq(f, 1, Len(output_directory)) = output_directory
                    /\ f[Len(output_directory) + 1] = "/"]_vars

\* C11: a project plan is produced only after a design document exists:
\* ProjectPlanCreator.invoke called while no design.md exists returns the
\* "Design document not found" error and writes no project_plan.md.  (No
\* args of the model hold design_details, which the invoke never reads.)
C11_NoPlanBeforeDesign ==
    [][(tool_call'.tool = "ProjectPlanCreator" /\ tool_call'.args.is_dict
        /\ \A f \in files : f[Len(f)] # "design.md") =>
          /\ tool_result'.value.text = "Error: Design document not found"
          /\ files' = files]_vars

-----------------------------------------------------------------------------
(* The results of execute_workflow over several calls on one engine *)

\* C12: the total_delegations execute_workflow reports for a workflow equals
\* the number of Determine and Fulfill delegations issued while executing
\* that workflow, a number between 5 and 10, also when the same engine has
\* executed earlier workflows.
C12_TotalDelegationsCountsThisWorkflow ==
    [][(pc = "return" /\ pc' = "idle" /\ last_result'.success) =>
          /\ last_result'.total_delegations =
                 Len(trace_lists[delegation_trace]) - frame.trace_base
          /\ last_result'.total_delegations \in 5..10
          /\ last_response'.kind = "multi_agent_report" =>
                 last_response'.total_delegations = last_result'.total_delegations]_vars

\* a result as its reader sees it: the delegation_trace reference followed
Deref(result, lists) ==
    [result EXCEPT !.delegation_trace = IF @ = 0 THEN <<>> ELSE lists[@]]

\* C13: the result stored for a completed session, its delegation_trace
\* included, is not changed by later execute_workflow calls made with other
\* session ids.
C13_StoredResultUnchangedByOtherSessions ==
    [][\A s \in DOMAIN active_sessions :
          (frame.session_id # s /\ frame'.session_id # s
           /\ s \in DOMAIN active_sessions'
           /\ active_sessions'[s] = active_sessions[s]) =>
              Deref(active_sessions'[s].result, trace_lists') =
              Deref(active_sessions[s].result, trace_lists)]_vars

\* C14: within execute_workflow_delegation a Fulfill delegation to an agent
\* is issued if and only if the delegation issued immediately before it was
\* the Determine delegation to the same agent with the same from_agent and
\* inquiry and that Determine response had Relevant equal to "Yes".
C14_FulfillIffPrecedingDetermineYes ==
    [][trace_lists' # trace_lists =>
          /\ last_delegate'.mode = "Fulfill" =>
                /\ last_delegate.mode = "Determine"
                /\ last_delegate.to_agent = last_delegate'.to_agent
                /\ last_delegate.from_agent = last_delegate'.from_agent
                /\ last_delegate.inquiry = last_delegate'.inquiry
                /\ last_delegate.ret.Relevant = "Yes"
          /\ (last_delegate.mode = "Determine" /\ last_delegate.ret.Relevant = "Yes") =>
                /\ last_delegate'.mode = "Fulfill"
                /\ last_delegate'.to_agent = last_delegate.to_agent]_vars

\* The qa Fulfill has been issued in a workflow whose engineer declined.
C14_Witness ==
    /\ pc = "return"
    /\ last_delegate.mode = "Fulfill"
    /\ last_delegate.to_agent = "qa"
    /\ \A i \in 1..Len(frame.otrace) : frame.otrace[i] # "engineer"

\* the position of an agent in the chain of command
ChainIndex(agent) ==
    CHOOSE i \in 1..Len(ChainOfCommand) : ChainOfCommand[i] = agent

\* the agents the running call of execute_workflow_delegation has sent a
\* Fulfill delegation to
FulfilledOfCall ==
    LET trace == trace_lists[delegation_trace]
    IN  {trace[i].to_agent : i \in {j \in (frame.trace_base + 1)..Len(trace) :
                                        trace[j].mode = "Fulfill"}}

\* C15: for every result of execute_workflow_delegation, otrace starts with
\* 'boss', has no duplicates, is a subsequence of the chain of command,
\* holds an agent other than boss exactly when that agent's Fulfill
\* delegation was issued, and total_agents_involved = len(otrace) =
\* 1 + len(delegation_results).
C15_OtraceShape ==
    pc = "return" =>
        LET result == WorkflowResult(frame, delegation_trace)
            otrace == result.otrace
        IN  /\ Len(otrace) >= 1
            /\ otrace[1] = "boss"
            /\ \A i \in 1..Len(otrace) :
                  \E k \in 1..Len(ChainOfCommand) : ChainOfCommand[k] = otrace[i]
            /\ \A i, j \in 1..Len(otrace) :
                  i < j => ChainIndex(otrace[i]) < ChainIndex(otrace[j])
            /\ \A k \in 2..Len(ChainOfCommand) :
                  (\E i \in 1..Len(otrace) : otrace[i] = ChainOfCommand[k])
                      <=> ChainOfCommand[k] \in FulfilledOfCall
            /\ result.total_agents_involved = Len(otrace)
            /\ Len(otrace) = 1 + Len(result.delegation_results)

\* A second workflow on the same engine returns with an agent left out.
C15_Witness ==
    /\ pc = "return"
    /\ frame.trace_base > 0
    /\ Len(frame.otrace) \in 2..5

-----------------------------------------------------------------------------
(* delegation_trace under direct calls of delegate_to_agent *)

\* C16: each call of delegate_to_agent with a string inquiry appends exactly
\* one record to delegation_trace, in the real-agent success, real-agent
\* failure, simulation and exception branches alike, so the trace lists the
\* delegations in the order they were issued; records are removed only by
\* clear_delegation_trace.
C16_OneRecordPerDelegation ==
    [][LET old == trace_lists[delegation_trace]
           new == trace_lists'[delegation_trace']
       IN  /\ n_direct' # n_direct =>
                 /\ delegation_trace' = delegation_trace
                 /\ Len(new) = Len(old) + 1
                 /\ SubSeq(new, 1, Len(old)) = old
                 /\ new[Len(new)].from_agent = last_delegate'.from_agent
                 /\ new[Len(new)].to_agent = last_delegate'.to_agent
                 /\ new[Len(new)].inquiry = last_delegate'.inquiry
                 /\ new[Len(new)].mode = last_delegate'.mode
           /\ (Len(new) < Len(old) \/ SubSeq(new, 1, Len(old)) # old) =>
                 /\ n_direct' = n_direct
                 /\ delegation_trace' # delegation_trace
                 /\ new = <<>>
           /\ \A ref \in DOMAIN trace_lists :
                 ref # delegation_trace => trace_lists'[ref] = trace_lists[ref]]_vars

\* The bridge threw on the second call made after the trace was cleared.
C16_Witness ==
    /\ delegation_trace = 2
    /\ Len(trace_lists[1]) = 1
    /\ Len(trace_lists[2]) = 1
    /\ trace_lists[2][1].status = "delegation_error"

-----------------------------------------------------------------------------
(* The sessions of a WorkflowEngine *)

\* a step in which a call of execute_workflow returns
WorkflowReturns ==
    /\ last_result' # NoResult
    /\ n_workflows' # n_workflows \/ pc # "idle"
    /\ pc' = "idle"

\* C17: after execute_workflow returns success for session id s,
\* get_session_status(s) reports status "completed" with the workflow_type,
\* mode and otrace of the most recent successful execution for s;
\* list_active_sessions holds exactly one entry per distinct session id
\* used; a session id never used in a successful execute_workflow yields
\* the "No session found" error.
C17_SessionStatusOfLatestSuccess ==
    [][LET returned == IF WorkflowReturns /\ last_result'.success
                       THEN {last_result'.session_id} ELSE {}
       IN  /\ \A s \in returned :
                 GetSessionStatus(active_sessions', s) =
                     SessionStatus(s, last_result'.workflow_type, last_result'.mode,
                                   last_result'.otrace, "completed", Absent)
           /\ \A s \in (SessionIds \cup {AutoSessionIds[i] : i \in DOMAIN AutoSessionIds})
                           \ returned :
                 /\ GetSessionStatus(active_sessions', s) =
                        GetSessionStatus(active_sessions, s)
                 /\ s \notin DOMAIN active_sessions =>
                        GetSessionStatus(active_sessions', s).error =
                            <<"No session found with ID: ", s>>
           /\ DOMAIN ListActiveSessions(active_sessions') =
                  (DOMAIN active_sessions) \cup returned
           /\ \A s \in DOMAIN active_sessions' :
                 ListActiveSessions(active_sessions')[s].session_id = s]_vars

\* Session s1 was stored by one workflow and stored again by a later
\* azure_landing_zone workflow, whose status it now shows.
C17_Witness ==
    /\ n_workflows = 2
    /\ pc = "idle"
    /\ last_result.success
    /\ last_result.session_id = "s1"
    /\ Len(last_result.otrace) = 5
    /\ GetSessionStatus(active_sessions, "s1").otrace = last_result.otrace
    /\ DOMAIN active_sessions = {"s1"}

\* C18: when execute_workflow ends on its error path (success False, mode
\* "error"), active_sessions is left unchanged: no session is created for
\* that session id, and a session stored earlier under the same id keeps
\* its previous content.  (No step of a call but its successful return
\* touches active_sessions.)
C18_ErrorPathLeavesSessions ==
    [][/\ (WorkflowReturns /\ ~last_result'.success) =>
              /\ last_result'.mode = "error"
              /\ active_sessions' = active_sessions
       /\ active_sessions' # active_sessions =>
              (WorkflowReturns /\ last_result'.success)]_vars

\* A workflow under session id s1 failed on an engine that holds the
\* session of an earlier, successful workflow under s1.
C18_Witness ==
    /\ pc = "idle"
    /\ last_result.mode = "error"
    /\ last_result.session_id = "s1"
    /\ "s1" \in DOMAIN active_sessions
    /\ active_sessions["s1"].mode = "multi_agent_aaosa"
    /\ Len(active_sessions["s1"].result.otrace) = 6

\* C19: two execute_workflow calls made without a session_id are stored as
\* two distinct sessions: the generated session ids never collide, so the
\* second call never overwrites the session of the first.
C19_AutoSessionIdsNeverCollide ==
    [][(WorkflowReturns /\ last_result'.success
        /\ \E i \in DOMAIN AutoSessionIds : last_result'.session_id = AutoSessionIds[i]) =>
            last_result'.session_id \notin DOMAIN active_sessions]_vars

-----------------------------------------------------------------------------
(* The user inputs the chat loop passes to cruse *)

\* the non-empty user inputs passed to cruse so far, in the order of the calls
Passed ==
    LET calls == SelectSeq(cruse_calls, LAMBDA c : c.user_input # "")
    IN  [i \in 1..Len(calls) |-> calls[i].user_input]

\* the non-empty user inputs put on the queue before the first "exit"
Eligible ==
    LET exits == {i \in 1..Len(user_inputs_put) : user_inputs_put[i] = "exit"}
        first == IF exits = {} THEN Len(user_inputs_put) + 1
                 ELSE CHOOSE i \in exits : \A j \in exits : i <= j
    IN  SelectSeq(SubSeq(user_inputs_put, 1, first - 1), LAMBDA u : u # "")

\* the input the loop took from the queue and has not yet passed on
Held(l) ==
    IF loops[l].pc = "poll" /\ loops[l].user_input # ""
    THEN <<loops[l].user_input>> ELSE <<>>

\* the non-empty inputs the running loop will still take from the queue
Waiting ==
    LET exits == {i \in 1..Len(user_input_queue) : user_input_queue[i] = "exit"}
        first == IF exits = {} THEN Len(user_input_queue) + 1
                 ELSE CHOOSE i \in exits : \A j \in exits : i <= j
    IN  SelectSeq(SubSeq(user_input_queue, 1, first - 1), LAMBDA u : u # "")

-----------------------------------------------------------------------------
(* cruse_session and cruse_agent_state under new_chat *)

\* C21: after handle_new_chat completes, cruse_session and cruse_agent_state
\* always belong to the same (new) chat session, even when a cruse call of
\* the chat loop was in flight on the old session when new_chat arrived: the
\* state returned by a call started on the torn-down session never replaces
\* the new session's state.
C21_StateBelongsToSession ==
    cruse_agent_state = cruse_session

-----------------------------------------------------------------------------
(* The chat loop after "exit" *)

\* C22: when the chat loop dequeues the user input "exit" it terminates
\* without passing "exit" to cruse, and from then on no cruse call is made
\* for any later user input or gui context, even if clients connect again.
C22_NoCruseCallAfterExit ==
    /\ [](\A i \in 1..Len(cruse_calls) : cruse_calls[i].user_input # "exit")
    /\ [][(\E l \in DOMAIN loops : loops[l].pc = "ended") =>
              cruse_calls' = cruse_calls]_vars

\* the same of an application in which one loop was started
C22_OneLoopNoCruseCallAfterExit ==
    /\ [](\A i \in 1..Len(cruse_calls) : cruse_calls[i].user_input # "exit")
    /\ [][Len(loops') = 1 /\ (\E l \in DOMAIN loops : loops[l].pc = "ended") =>
              /\ cruse_calls' = cruse_calls
              /\ loops' = loops]_vars

-----------------------------------------------------------------------------
(* dev/backup/cloud_infrastructure_provider/project_plan_creator.py:
   _generate_tasks_from_requirements and _calculate_timeline *)

\* str(n) of a natural number, as its decimal digits
DigitChars == <<"0", "1", "2", "3", "4", "5", "6", "7", "8", "9">>

RECURSIVE Str(_)
Str(n) ==
    IF n < 10 THEN <<DigitChars[n + 1]>>
    ELSE Append(Str(n \div 10), DigitChars[(n % 10) + 1])

DigitValue(ch) == (CHOOSE d \in 1..10 : DigitChars[d] = ch) - 1

\* int(s) of a string of decimal digits
RECURSIVE ParseInt(_)
ParseInt(digits) ==
    IF digits = <<>> THEN 0
    ELSE 10 * ParseInt(SubSeq(digits, 1, Len(digits) - 1))
         + DigitValue(digits[Len(digits)])

\* A task is named by its words, kept in lower case as existing_task_names
\* has them; the case of a name plays no part in what is computed here.
BaseTask(name, owner, base_duration, phase) ==
    [name |-> name, owner |-> owner, base_duration |-> base_duration,
     phase |-> phase]

base_tasks ==
    <<BaseTask(<<"requirements", "analysis">>, "Architect", 1, 1),
      BaseTask(<<"infrastructure", "design", "review">>, "Architect", 1, 2)>>

\* tech_tasks[tech]; <<>> for a technology that is no key of tech_tasks
tech_tasks(tech) ==
    CASE tech = "terraform" ->
           <<BaseTask(<<"terraform", "module", "setup">>, "Engineer", 2, 3),
             BaseTask(<<"terraform", "state", "management">>, "Engineer", 1, 4)>>
      [] tech = "ansible" ->
           <<BaseTask(<<"ansible", "role", "development">>, "Engineer", 2, 7),
             BaseTask(<<"configuration", "management">>, "Engineer", 1, 8)>>
      [] tech = "kubernetes" ->
           <<BaseTask(<<"kubernetes", "cluster", "setup">>, "Engineer", 3, 5),
             BaseTask(<<"container", "orchestration">>, "Engineer", 2, 6)>>
      [] tech = "networking" ->
           <<BaseTask(<<"network", "infrastructure">>, "Engineer", 2, 4),
             BaseTask(<<"security", "groups", "&", "firewall">>, "Engineer", 1, 5)>>
      [] tech = "database" ->
           <<BaseTask(<<"database", "configuration">>, "Engineer", 2, 6),
             BaseTask(<<"data", "migration", "setup">>, "Engineer", 1, 7)>>
      [] tech = "monitoring" ->
           <<BaseTask(<<"monitoring", "setup">>, "Engineer", 2, 8),
             BaseTask(<<"alerting", "configuration">>, "Engineer", 1, 9)>>
      [] tech = "storage" ->
           <<BaseTask(<<"storage", "configuration">>, "Engineer", 1, 5)>>
      [] tech = "load_balancer" ->
           <<BaseTask(<<"load", "balancer", "setup">>, "Engineer", 1, 6)>>
      [] tech = "ci_cd" ->
           <<BaseTask(<<"ci/cd", "pipeline", "setup">>, "Engineer", 3, 9),
             BaseTask(<<"deployment", "automation">>, "Engineer", 2, 10)>>
      [] OTHER -> <<>>

standard_tasks ==
    <<BaseTask(<<"compute", "resources">>, "Engineer", 2, 5),
      BaseTask(<<"security", "implementation">>, "Engineer", 2, 8)>>

final_tasks ==
    <<BaseTask(<<"testing", "&", "validation">>, "Architect", 2, 98),
      BaseTask(<<"documentation", "update">>, "Architect", 1, 99),
      BaseTask(<<"deployment", "&", "handover">>, "Engineer", 1, 100)>>

\* complexity_multiplier.get(complexity, 1.0), in tenths
complexity_multiplier(complexity) ==
    CASE complexity = "Low" -> 8
      [] complexity = "High" -> 15
      [] OTHER -> 10

\* the keys of tech_patterns, in the order of the dict
tech_patterns ==
    <<"terraform", "ansible", "kubernetes", "docker", "jenkins", "monitoring",
      "logging", "database", "load_balancer", "storage", "networking", "ci_cd">>

\* requirements['technologies'] after the loop over tech_patterns.items(),
\* when the patterns with index in `found` match the design
TechnologiesFound(found) ==
    LET upto[i \in 0..Len(tech_patterns)] ==
            IF i = 0 THEN <<>>
            ELSE IF i \in found THEN Append(upto[i - 1], tech_patterns[i])
                 ELSE upto[i - 1]
    IN  upto[Len(tech_patterns)]

\* the requirements _analyze_design_requirements can return, as far as
\* _generate_tasks_from_requirements reads them.  The technology_stack
\* merged into them (iac_tool, config_tool, ...) has neither key.
Requirements ==
    {[technologies |-> TechnologiesFound(found), complexity |-> complexity] :
        found \in SUBSET (1..Len(tech_patterns)),
        complexity \in {"Low", "Medium", "High"}}

\* tasks.extend(tech_tasks[tech]) for every tech of the list that is a key
RECURSIVE ExtendWithTechTasks(_, _)
ExtendWithTechTasks(list, technologies) ==
    IF technologies = <<>> THEN list
    ELSE ExtendWithTechTasks(list \o tech_tasks(Head(technologies)),
                             Tail(technologies))

\* the loop over standard_tasks: existing_task_names is computed before the
\* loop, and `keyword in existing_task_names` asks for a task whose whole
\* name is the keyword
ExtendWithStandardTasks(list) ==
    LET existing_task_names == {list[i].name : i \in 1..Len(list)}
        missing(task) ==
            ~\E k \in 1..Len(task.name) : <<task.name[k]>> \in existing_task_names
    IN  list \o SelectSeq(standard_tasks, missing)

\* list.sort(key=lambda x: x['phase']): a stable sort
RECURSIVE SortByPhase(_)
SortByPhase(list) ==
    IF list = <<>> THEN <<>>
    ELSE LET front == SortByPhase(SubSeq(list, 1, Len(list) - 1))
             task == list[Len(list)]
             k == Cardinality({i \in 1..Len(front) : front[i].phase <= task.phase})
         IN  SubSeq(front, 1, k) \o <<task>> \o SubSeq(front, k + 1, Len(front))

\* a duration that is not held at one day
TaskDurationUnclamped(base_duration, multiplier) ==
    (base_duration * multiplier) \div 10

\* max(1, int(task['base_duration'] * multiplier)), the multiplier in tenths
TaskDuration(base_duration, multiplier) ==
    LET scaled == (base_duration * multiplier) \div 10
    IN  IF scaled < 1 THEN 1 ELSE scaled

GenerateTasksFromRequirements(reqs) ==
    LET multiplier == complexity_multiplier(reqs.complexity)
        sorted == SortByPhase(
                      ExtendWithStandardTasks(
                          ExtendWithTechTasks(base_tasks, reqs.technologies))
                      \o final_tasks)
    IN  [n \in 1..Len(sorted) |->
            [name |-> sorted[n].name,
             owner |-> sorted[n].owner,
             base_duration |-> sorted[n].base_duration,
             phase |-> sorted[n].phase,
             task_number |-> n,
             duration |-> TaskDuration(sorted[n].base_duration, multiplier),
             dependencies |-> IF n - 1 > 0 THEN <<"Task ">> \o Str(n - 1)
                              ELSE <<"None">>,
             status |-> "Planned"]]

RECURSIVE SumDurations(_)
SumDurations(list) ==
    IF list = <<>> THEN 0 ELSE Head(list).duration + SumDurations(Tail(list))

CalculateTimeline(list) ==
    LET first5 == SubSeq(list, 1, IF Len(list) < 5 THEN Len(list) ELSE 5)
        parallel(task) == /\ task.owner = "Engineer"
                          /\ 5 <= task.task_number
                          /\ task.task_number <= Len(list) - 3
        engineer_tasks == SelectSeq(list, parallel)
    IN  [total_duration |-> Str(SumDurations(list)),
         critical_path |-> [i \in 1..Len(first5) |->
                               <<"Task ">> \o Str(first5[i].task_number)],
         parallel_tasks |-> IF Len(engineer_tasks) >= 2
                            THEN <<engineer_tasks[1].name, engineer_tasks[2].name>>
                            ELSE <<>>]

InitPlan ==
    /\ requirements \in Requirements
    /\ tasks = <<>>
    /\ timeline_info = [total_duration |-> <<>>, critical_path |-> <<>>,
                        parallel_tasks |-> <<>>]
    /\ NoEngine
    /\ NoDetermineCall
    /\ NoChat
    /\ NoTts
    /\ NoTools

\* tasks = self._generate_tasks_from_requirements(requirements)
GenerateTasks ==
    /\ tasks = <<>>
    /\ tasks' = GenerateTasksFromRequirements(requirements)
    /\ UNCHANGED <<nonPlanVars, requirements, timeline_info>>

\* timeline_info = self._calculate_timeline(tasks)
CalculateTimelineStep ==
    /\ tasks # <<>>
    /\ timeline_info.total_duration = <<>>
    /\ timeline_info' = CalculateTimeline(tasks)
    /\ UNCHANGED <<nonPlanVars, requirements, tasks>>

NextPlan == GenerateTasks \/ CalculateTimelineStep

SpecPlan == InitPlan /\ [][NextPlan]_vars

\* C23: the task list built by the backup
\* ProjectPlanCreator._generate_tasks_from_requirements is ordered by
\* non-decreasing phase and numbered consecutively from 1; the first task
\* has dependency "None" and every other task k depends on "Task k-1";
\* every duration is at least 1 day; and the total duration reported by
\* _calculate_timeline equals the sum of the task durations.
C23_TaskListAndTimeline ==
    /\ \A k \in 1..Len(tasks) :
          /\ k > 1 => tasks[k - 1].phase <= tasks[k].phase
          /\ tasks[k].task_number = k
          /\ IF k = 1 THEN tasks[k].dependencies = <<"None">>
             ELSE /\ Head(tasks[k].dependencies) = "Task "
                  /\ ParseInt(Tail(tasks[k].dependencies)) = k - 1
          /\ tasks[k].duration >= 1
    /\ timeline_info.total_duration # <<>> =>
          ParseInt(timeline_info.total_duration) = SumDurations(tasks)

\* A timeline was calculated for a design of low complexity that names
\* ansible and kubernetes: the sort moved the kubernetes tasks before the
\* ansible ones, and a task of base duration 1 got the duration 1.
C23_Witness ==
    /\ requirements.complexity = "Low"
    /\ requirements.technologies = <<"ansible", "kubernetes">>
    /\ Len(tasks) = 11
    /\ \E k \in 1..Len(tasks) :
          tasks[k].base_duration = 1 /\ tasks[k].duration = 1
    /\ timeline_info.total_duration # <<>>

=============================================================================
